---- MODULE Spec2Model ----
(***************************************************************************)
(* A model of the publisher release tool: the GitService (commit history   *)
(* reader, status validation, tagging), the validate command and the       *)
(* release command.                                                        *)
(*                                                                         *)
(* Text is modelled as a sequence of tokens (a token is an indivisible run *)
(* of characters), so that String.startsWith and String.includes are the   *)
(* prefix and the contiguous-subsequence tests; a multi-line text is the   *)
(* sequence of its lines, that is text.split("\n").                        *)
(***************************************************************************)
EXTENDS Integers, Sequences, FiniteSets, TLC

VARIABLES
    history,    \* the repository's commits, newest first (git log order)
    tagPos,     \* existing tag name -> index in history of the tagged commit
    logCall,    \* the last commit-reader call: [op, tag, options]
    logResult,  \* what that call returned: a sequence of GitCommit
    gitConfig,  \* the GitConfig the GitService was constructed with
    localTags,  \* the tags of the local repository
    remoteTags, \* the tags of the remote repository
    workTree,   \* what git status reports, and the remote's true distance
    gitCall,    \* the last GitService call: [op, ...arguments]
    gitOps,     \* the git operations that call issued, in order
    gitResult,  \* how that call ended: a value or a raised error
    relCall,    \* the last release command: [op, packages, options, env]
    relCalls,   \* the service calls the command made, in order
    relEnd,     \* how the command ended: [exit, error]
    valCall,    \* the last validate command: [op, packages, options, env, ...]
    valCalls,   \* the collaborator calls it made, in order
    valReports, \* the package validation reports it built
    valEnd,     \* how it ended: [exit, error]
    chgCall,    \* the last batch changelog validation: [op, found, env]
    chgCalls,   \* the collaborator calls it made, in order
    chgEnd      \* how it ended: [exit, error]

logVars == <<history, tagPos, logCall, logResult>>
gitVars == <<gitConfig, localTags, remoteTags, workTree, gitCall, gitOps, gitResult>>
relVars == <<relCall, relCalls, relEnd>>
valVars == <<valCall, valCalls, valReports, valEnd>>
chgVars == <<chgCall, chgCalls, chgEnd>>
cmdVars == <<relVars, valVars, chgVars>>
vars    == <<logVars, gitVars, cmdVars>>

-----------------------------------------------------------------------------
(* Bounds *)

MaxCommits == 3

-----------------------------------------------------------------------------
(* Text helpers *)

\* String.prototype.startsWith
StartsWith(s, p) == Len(p) <= Len(s) /\ SubSeq(s, 1, Len(p)) = p

\* String.prototype.includes
Includes(s, sub) ==
    \E i \in 0..(Len(s) - Len(sub)) : SubSeq(s, i + 1, i + Len(sub)) = sub

\* Array.prototype.filter(Boolean) on an array of strings: drops "".
FilterBoolean(lines) == SelectSeq(lines, LAMBDA l : l # <<>>)

RECURSIVE Flatten(_)
Flatten(ss) == IF ss = <<>> THEN <<>> ELSE Head(ss) \o Flatten(Tail(ss))

\* text.split("\n" + sepLine + "\n") on a text given as its lines: a line equal
\* to sepLine separates when a newline precedes and follows it; matches do not
\* overlap, so the line right after a separator is never one.  `start` is the
\* first line of the piece being collected, `i` the line under test.
RECURSIVE SplitFrom(_, _, _, _)
SplitFrom(lines, sepLine, start, i) ==
    IF i >= Len(lines)
    THEN << SubSeq(lines, start, Len(lines)) >>
    ELSE IF i > start /\ lines[i] = sepLine
         THEN << SubSeq(lines, start, i - 1) >>
              \o SplitFrom(lines, sepLine, i + 1, i + 1)
         ELSE SplitFrom(lines, sepLine, start, i + 1)

SplitOnLine(lines, sepLine) == SplitFrom(lines, sepLine, 1, 1)

\* The empty string, as a text.
EmptyText == << <<>> >>

-----------------------------------------------------------------------------
(* The repository's vocabulary *)

RootDir == <<"/repo">>
PkgRelA == <<"packages/", "a">>
PkgRelB == <<"packages/", "b">>
FileA   == <<"packages/", "a", "/", "x.ts">>
FileB   == <<"packages/", "b", "/", "y.ts">>
FileAB  == <<"packages/", "a", "b", "/", "z.ts">>

Hashes == <<"h1", "h2", "h3", "h4">>
Date   == <<"2024-01-01T00:00:00+00:00">>

SubjectFix  == <<"fix:", "bug">>
SubjectFeat == <<"feat", "(", "a", ")", ":", "add">>
BodyCloses  == << <<"closes", "(", "a", ")">> >>
BodyQuoted  == << <<"COMMIT">>, <<"q1">>, <<"q2">>, <<"q3">> >>

Shape(subject, body, files) == [subject |-> subject, body |-> body, files |-> files]

\* The commits a history is made of: with and without the marker (a), in the
\* subject or in the body alone; touching package a, only package b, only the
\* sibling directory packages/ab, or no file; with an empty message (git
\* commit --allow-empty-message: %s and %b are both empty); with a body that
\* quotes a piece of log output.
CommitShapes ==
    { Shape(SubjectFix,  <<>>,       <<FileB, FileA>>),
      Shape(SubjectFix,  <<>>,       <<FileB>>),
      Shape(SubjectFix,  <<>>,       <<>>),
      Shape(SubjectFeat, <<>>,       <<FileAB>>),
      Shape(SubjectFeat, <<>>,       <<FileB>>),
      Shape(SubjectFix,  BodyCloses, <<>>),
      Shape(<<>>,        <<>>,       <<FileB>>),
      Shape(SubjectFix,  BodyQuoted, <<FileAB>>) }

\* A history of n commits: shapes by position; the hash is the position's.
Histories ==
    UNION { [1..n -> CommitShapes] : n \in 0..MaxCommits }

LineCOMMIT == <<"COMMIT">>
LineFILES  == <<"FILES">>

TagA1      == <<"a", "@", "1", ".", "0", ".", "0">>
TagMissing == <<"a", "@", "9", ".", "9", ".", "9">>

AbsPath(rel) == RootDir \o <<"/">> \o rel

\* The commit at position i of a history h, with its hash.
CommitAt(h, i) ==
    [hash |-> <<Hashes[i]>>, subject |-> h[i].subject,
     body |-> h[i].body, files |-> h[i].files]

Commits(h) == [i \in 1..Len(h) |-> CommitAt(h, i)]

-----------------------------------------------------------------------------
(* git log --format=COMMIT%n%H%n%aI%n%s%n%b%nFILES --name-only *)

\* The lines git prints for one commit: the format's lines (a non-empty %b
\* ends with its own newline, so an empty line precedes FILES either way),
\* then, when the commit has changed files, an empty line and the names.
CommitLines(c) ==
    <<LineCOMMIT, c.hash, Date, c.subject>> \o c.body \o << <<>>, LineFILES >>
    \o (IF c.files = <<>> THEN <<>> ELSE << <<>> >> \o c.files)

\* The whole output as text.split("\n"): every line ends with a newline, so
\* a last empty line follows; no commit at all is the empty string.
GitLogOutput(commits) ==
    IF commits = <<>> THEN EmptyText
    ELSE Flatten([i \in 1..Len(commits) |-> CommitLines(commits[i])]) \o << <<>> >>

-----------------------------------------------------------------------------
(* GitService: parsing the log *)

\* One chunk of the log to zero or one GitCommit.
ParseChunk(chunk) ==
    LET parts      == SplitOnLine(chunk, LineFILES)
        commitData == parts[1]
        lines      == FilterBoolean(commitData)
        startIndex == IF lines # <<>> /\ lines[1] = LineCOMMIT THEN 1 ELSE 0
        files      == IF Len(parts) >= 2 THEN FilterBoolean(parts[2]) ELSE <<>>
    IN  IF Len(lines) < startIndex + 3 THEN <<>>
        ELSE << [hash    |-> lines[startIndex + 1],
                 date    |-> lines[startIndex + 2],
                 message |-> lines[startIndex + 3],
                 body    |-> SubSeq(lines, startIndex + 4, Len(lines)),
                 files   |-> files] >>

\* result.split("\nCOMMIT\n").filter(Boolean), each chunk parsed in order.
ParseLog(text) ==
    LET chunks == SelectSeq(SplitOnLine(text, LineCOMMIT),
                            LAMBDA ch : ch # EmptyText)
    IN  Flatten([i \in 1..Len(chunks) |-> ParseChunk(chunks[i])])

\* getAllCommits: git log fails in a repository without commits, and the
\* catch returns []; an empty output returns [] too.
GetAllCommits(h) ==
    IF h = <<>> THEN <<>>
    ELSE LET result == GitLogOutput(Commits(h))
         IN  IF result = EmptyText THEN <<>> ELSE ParseLog(result)

\* path.relative(from, to) for a path at or under `from`.
PathRelative(from, to) ==
    IF to = from THEN <<>>
    ELSE IF StartsWith(to, from \o <<"/">>)
         THEN SubSeq(to, Len(from) + 2, Len(to))
         ELSE <<"../">> \o to

\* `(${packageName})`
Marker(packageName) == <<"(">> \o packageName \o <<")">>

\* The hashes of the commits with a changed file under the relative path.
MatchedByPath(commits, options) ==
    IF options.packagePath # <<>>
    THEN LET relativePath == PathRelative(RootDir, options.packagePath)
         IN  { commits[i].hash : i \in
                 { j \in 1..Len(commits) :
                     \E k \in 1..Len(commits[j].files) :
                         StartsWith(commits[j].files[k], relativePath) } }
    ELSE {}

\* The hashes of the commits whose message or body holds the marker.
MatchedByName(commits, options) ==
    IF options.packageName # <<>>
    THEN { commits[i].hash : i \in
             { j \in 1..Len(commits) :
                 \/ Includes(commits[j].message, Marker(options.packageName))
                 \/ \E k \in 1..Len(commits[j].body) :
                        Includes(commits[j].body[k], Marker(options.packageName)) } }
    ELSE {}

\* A filter that keeps a commit only when both predicates match.
ApplyFilters_BothMatch(commits, options) ==
    IF options.given
    THEN SelectSeq(commits,
            LAMBDA c : /\ c.hash \in MatchedByPath(commits, options)
                       /\ c.hash \in MatchedByName(commits, options))
    ELSE commits

\* The filter block: runs whenever an options object was passed.
ApplyFilters(commits, options) ==
    IF options.given
    THEN SelectSeq(commits,
            LAMBDA c : \/ c.hash \in MatchedByPath(commits, options)
                       \/ c.hash \in MatchedByName(commits, options))
    ELSE commits

\* The commits git lists for tag..HEAD: those before the tagged one.
SinceTag(h, tp, tag) == SubSeq(Commits(h), 1, tp[tag] - 1)

\* getCommitsSinceTag with a non-empty tag.
CommitsAfterTag(h, tp, tag, options) ==
    IF h = <<>> THEN <<>>                      \* log -1 fails: catch
    ELSE IF tag \notin DOMAIN tp THEN <<>>     \* tag..HEAD fails: catch
    ELSE LET result == GitLogOutput(SinceTag(h, tp, tag))
         IN  IF result = EmptyText THEN <<>>
             ELSE ApplyFilters(ParseLog(result), options)

\* A reader that filters the full history too.
GetCommitsSinceTag_FilterAll(h, tp, tag, options) ==
    IF tag = <<>> THEN ApplyFilters(GetAllCommits(h), options)
    ELSE CommitsAfterTag(h, tp, tag, options)

\* getCommitsSinceTag(tag, options) on history h with the tags tp.
GetCommitsSinceTag(h, tp, tag, options) ==
    IF tag = <<>> THEN GetAllCommits(h)
    ELSE CommitsAfterTag(h, tp, tag, options)

-----------------------------------------------------------------------------
(* GitService: configuration, repository state, results *)

\* The generated default configuration's git section.
DefaultGitConfig ==
    [remote |-> "origin", tagPrefix |-> <<>>,
     requireCleanWorkingDirectory |-> TRUE, requireUpToDate |-> TRUE,
     allowedBranches |-> <<"main", "master">>]

\* git status on a clean, tracked, up-to-date main branch.
CleanTree ==
    [files |-> <<>>, current |-> "main", tracking |-> "origin/main",
     behind |-> 0, remoteBehind |-> 0, head |-> "c0"]

NoGitCall == [op |-> "none"]
NoResult  == [status |-> "none", value |-> <<>>, message |-> <<>>]

Returned(value) == [status |-> "ok", value |-> value, message |-> <<>>]
Raised(message) == [status |-> "error", value |-> <<>>, message |-> message]

GitIdle ==
    /\ gitConfig = DefaultGitConfig
    /\ localTags = {}
    /\ remoteTags = {}
    /\ workTree = CleanTree
    /\ gitCall = NoGitCall
    /\ gitOps = <<>>
    /\ gitResult = NoResult

-----------------------------------------------------------------------------
(* GitService: tags *)

V100 == <<"1", ".", "0", ".", "0">>
V101 == <<"1", ".", "0", ".", "1">>

\* formatGitTag: <optional-prefix><packageName>@<version>
FormatGitTag(packageName, version, tagPrefix) ==
    tagPrefix \o packageName \o <<"@">> \o version

GetTagName(cfg, packageName, version) ==
    FormatGitTag(packageName, version, cfg.tagPrefix)

\* One git operation issued through simple-git, and whether it succeeded.
GitOp(cmd, arg, ok) == [cmd |-> cmd, arg |-> arg, ok |-> ok]

\* What git reports when an operation fails.
GitFailure(cmd) == <<"fatal: ", cmd, " failed">>
TagExistsFailure(tagName) == <<"fatal: tag '">> \o tagName \o <<"' ", "already exists">>

\* The error createTag raises for an existing tag.
AlreadyExistsMessage(cfg, tagName) ==
    <<"Tag ">> \o tagName
    \o <<" ", "already exists", ". Use --force to overwrite or manually delete the tag with:">>
    \o <<"git tag -d ">> \o tagName
    \o <<"git push ", cfg.remote, " :refs/tags/">> \o tagName

DeleteFailedMessage(tagName, cause) ==
    <<"Failed to delete tag ">> \o tagName \o <<": ">> \o cause

\* checkTagExists: git rev-parse refs/tags/<tagName> succeeds for a local tag.
CheckTagExists(lt, tagName) == tagName \in lt

\* A run of a GitService method: the operations issued, the result, and the
\* tags it leaves.
Run(ops, result, lt, rt) ==
    [ops |-> ops, result |-> result, localTags |-> lt, remoteTags |-> rt]

\* A deleteTag that reports a failed local deletion as success.
DeleteTagRun_IgnoreLocalFailure(cfg, lt, rt, tagName, remote, env) ==
    LET localTagExists == CheckTagExists(lt, tagName)
        localOk   == ~env.tagDeleteFails
        lt1       == IF localTagExists /\ localOk THEN lt \ {tagName} ELSE lt
        tryRemote == remote /\ cfg.remote # ""
        remoteOk  == tagName \in rt /\ ~env.remoteDeleteFails
    IN  Run(<<GitOp("rev-parse", tagName, localTagExists)>>
              \o (IF localTagExists THEN <<GitOp("tag -d", tagName, localOk)>> ELSE <<>>)
              \o (IF tryRemote THEN <<GitOp("push :refs/tags", tagName, remoteOk)>> ELSE <<>>),
            Returned(<<>>),
            lt1,
            IF tryRemote /\ remoteOk THEN rt \ {tagName} ELSE rt)

\* deleteTag(tagName, remote): the local tag is deleted when it exists; the
\* remote deletion is attempted when asked for and a remote is configured,
\* and its failure is swallowed; a failed local deletion is raised.
DeleteTagRun(cfg, lt, rt, tagName, remote, env) ==
    LET localTagExists == CheckTagExists(lt, tagName)
        localOk     == ~env.tagDeleteFails
        localFailed == localTagExists /\ ~localOk
        lt1         == IF localTagExists /\ localOk THEN lt \ {tagName} ELSE lt
        tryRemote   == ~localFailed /\ remote /\ cfg.remote # ""
        \* git rejects the deletion of a ref the remote does not have
        remoteOk    == tagName \in rt /\ ~env.remoteDeleteFails
    IN  Run(<<GitOp("rev-parse", tagName, localTagExists)>>
              \o (IF localTagExists THEN <<GitOp("tag -d", tagName, localOk)>> ELSE <<>>)
              \o (IF tryRemote THEN <<GitOp("push :refs/tags", tagName, remoteOk)>> ELSE <<>>),
            IF localFailed
            THEN Raised(DeleteFailedMessage(tagName, GitFailure("tag -d")))
            ELSE Returned(<<>>),
            lt1,
            IF tryRemote /\ remoteOk THEN rt \ {tagName} ELSE rt)

\* createTag's catch block: an error whose message holds "already exists" is
\* replaced by the already-exists error; any other is rethrown.
CreateTagCatch(cfg, tagName, message) ==
    IF Includes(message, <<"already exists">>)
    THEN Raised(AlreadyExistsMessage(cfg, tagName))
    ELSE Raised(message)

\* git.addAnnotatedTag after the operations `ops` left the tags lt, rt.
AddAnnotatedTagRun(cfg, ops, lt, rt, tagName, env) ==
    LET addOk == tagName \notin lt /\ ~env.addTagFails
        cause == IF tagName \in lt THEN TagExistsFailure(tagName)
                 ELSE GitFailure("tag -a")
    IN  Run(ops \o <<GitOp("addAnnotatedTag", tagName, addOk)>>,
            IF addOk THEN Returned(tagName) ELSE CreateTagCatch(cfg, tagName, cause),
            IF addOk THEN lt \cup {tagName} ELSE lt,
            rt)

\* A createTag that overwrites an existing tag whether or not force is set.
CreateTagRun_AlwaysForce(cfg, lt, rt, context, force, env) ==
    IF context.newVersion = <<>>
    THEN Run(<<>>, Raised(<<"Version is required to create a tag">>), lt, rt)
    ELSE
    LET tagName   == GetTagName(cfg, context.name, context.newVersion)
        tagExists == CheckTagExists(lt, tagName)
        check     == <<GitOp("rev-parse", tagName, tagExists)>>
        del       == DeleteTagRun(cfg, lt, rt, tagName, TRUE, env)
    IN  IF tagExists
        THEN IF del.result.status = "error"
             THEN Run(check \o del.ops,
                      CreateTagCatch(cfg, tagName, del.result.message),
                      del.localTags, del.remoteTags)
             ELSE AddAnnotatedTagRun(cfg, check \o del.ops,
                                     del.localTags, del.remoteTags, tagName, env)
        ELSE AddAnnotatedTagRun(cfg, check, lt, rt, tagName, env)

\* A createTag that adds the tag before it deletes the old one.
CreateTagRun_AddFirst(cfg, lt, rt, context, force, env) ==
    IF context.newVersion = <<>>
    THEN Run(<<>>, Raised(<<"Version is required to create a tag">>), lt, rt)
    ELSE
    LET tagName   == GetTagName(cfg, context.name, context.newVersion)
        tagExists == CheckTagExists(lt, tagName)
        check     == <<GitOp("rev-parse", tagName, tagExists)>>
        add       == AddAnnotatedTagRun(cfg, check, lt \ {tagName}, rt, tagName, env)
        del       == DeleteTagRun(cfg, lt, rt, tagName, TRUE, env)
    IN  IF tagExists
        THEN IF force
             THEN Run(add.ops \o del.ops, add.result, add.localTags, del.remoteTags)
             ELSE Run(check, CreateTagCatch(cfg, tagName,
                                            AlreadyExistsMessage(cfg, tagName)), lt, rt)
        ELSE AddAnnotatedTagRun(cfg, check, lt, rt, tagName, env)

\* createTag(context, force)
CreateTagRun(cfg, lt, rt, context, force, env) ==
    IF context.newVersion = <<>>
    THEN Run(<<>>, Raised(<<"Version is required to create a tag">>), lt, rt)
    ELSE
    LET tagName   == GetTagName(cfg, context.name, context.newVersion)
        tagExists == CheckTagExists(lt, tagName)
        check     == <<GitOp("rev-parse", tagName, tagExists)>>
        del       == DeleteTagRun(cfg, lt, rt, tagName, TRUE, env)
    IN  IF tagExists
        THEN IF force
             THEN IF del.result.status = "error"
                  THEN Run(check \o del.ops,
                           CreateTagCatch(cfg, tagName, del.result.message),
                           del.localTags, del.remoteTags)
                  ELSE AddAnnotatedTagRun(cfg, check \o del.ops,
                                          del.localTags, del.remoteTags, tagName, env)
             ELSE Run(check, CreateTagCatch(cfg, tagName,
                                            AlreadyExistsMessage(cfg, tagName)), lt, rt)
        ELSE AddAnnotatedTagRun(cfg, check, lt, rt, tagName, env)

-----------------------------------------------------------------------------
(* GitService: validateStatus *)

\* files.map(f => f.path).join("\n- ") after the fixed text.
NotCleanMessage(files) ==
    <<"Working directory is not clean. The following files have changes:">>
    \o Flatten(files)
    \o <<"To proceed anyway, you can:", "1. Commit or stash your changes",
         "2. Run with --no-git-check to skip this check">>

NoBranchMessage == <<"Not currently on any branch">>

BehindMessage(wt) ==
    <<"Branch ", wt.current, " is behind ", wt.tracking, " by commits.",
      "Please run 'git pull' to update your local branch or use --force to override.">>

BranchNotAllowedMessage(cfg, wt) ==
    <<"Current branch ", wt.current, " is not in allowed branches: ">>
    \o cfg.allowedBranches
    \o <<"To proceed anyway, you can:", "1. Switch to an allowed branch",
         "2. Run with --allow-branch to bypass branch restrictions">>

\* Array.prototype.includes
InArray(a, x) == \E i \in 1..Len(a) : a[i] = x

\* a ?? b for an optional boolean option ("undefined", "true", "false")
Coalesce(opt, default) == IF opt = "undefined" THEN default ELSE opt = "true"

\* What one git operation leaves of the working tree state: a fetch brings
\* the remote-tracking branch up to date, so the distance behind is the true
\* one from then on; status changes nothing.
TreeAfterOp(wt, op) ==
    IF op.cmd = "fetch" /\ op.ok THEN [wt EXCEPT !.behind = wt.remoteBehind]
    ELSE wt

RECURSIVE TreeAfter(_, _)
TreeAfter(wt, ops) ==
    IF ops = <<>> THEN wt ELSE TreeAfter(TreeAfterOp(wt, Head(ops)), Tail(ops))

StatusRun(ops, result) == [ops |-> ops, result |-> result]

\* The branch allow-list check, after the operations `ops`.
AllowedBranchCheck(cfg, wt, options, ops) ==
    IF /\ cfg.allowedBranches # <<>>
       /\ ~options.force
       /\ ~options.allowBranch
       /\ ~InArray(cfg.allowedBranches, wt.current)
    THEN StatusRun(ops, Raised(BranchNotAllowedMessage(cfg, wt)))
    ELSE StatusRun(ops, Returned(<<>>))

\* The fetch and the behind check (requireUpToDate), then the allow-list;
\* `wt` is the status read before the fetch, `fetchCmd` the command issued.
UpToDateCheck(cfg, wt, options, env, ops, fetchCmd) ==
    IF ~cfg.requireUpToDate THEN AllowedBranchCheck(cfg, wt, options, ops)
    ELSE LET ops1 == ops \o <<GitOp(fetchCmd, <<cfg.remote>>, ~env.fetchFails)>>
         IN  IF env.fetchFails
             THEN StatusRun(ops1, Raised(GitFailure(fetchCmd)))
             ELSE IF wt.current = ""
             THEN StatusRun(ops1, Raised(NoBranchMessage))
             ELSE IF wt.tracking # "" /\ wt.behind > 0 /\ ~options.force
             THEN StatusRun(ops1, Raised(BehindMessage(wt)))
             ELSE AllowedBranchCheck(cfg, wt, options, ops1)

\* A validateStatus that brings the branch up to date with git pull.
ValidateStatusRun_Pull(cfg, wt, options, env) ==
    UpToDateCheck(cfg, wt, options, env, <<GitOp("status", <<>>, TRUE)>>, "pull")

\* A validateStatus whose cleanliness check is waived by force.
ValidateStatusRun_ForceSkipsClean(cfg, wt, options, env) ==
    LET ops == <<GitOp("status", <<>>, ~env.statusFails)>>
    IN  IF env.statusFails
        THEN StatusRun(ops, Raised(GitFailure("status")))
        ELSE IF cfg.requireCleanWorkingDirectory /\ wt.files # <<>> /\ ~options.force
        THEN StatusRun(ops, Raised(NotCleanMessage(wt.files)))
        ELSE UpToDateCheck(cfg, wt, options, env, ops, "fetch")

\* validateStatus(options)
ValidateStatusRun(cfg, wt, options, env) ==
    LET ops == <<GitOp("status", <<>>, ~env.statusFails)>>
    IN  IF env.statusFails
        THEN StatusRun(ops, Raised(GitFailure("status")))
        ELSE IF cfg.requireCleanWorkingDirectory /\ wt.files # <<>>
        THEN StatusRun(ops, Raised(NotCleanMessage(wt.files)))
        ELSE IF /\ wt.tracking = ""
                /\ Coalesce(options.skipUpstreamTracking, ~cfg.requireUpToDate)
        THEN StatusRun(ops, Returned(<<>>))
        ELSE UpToDateCheck(cfg, wt, options, env, ops, "fetch")

-----------------------------------------------------------------------------
(* GitService: getLastTag and compareVersions *)

\* String.prototype.split on a one-token separator.
RECURSIVE SplitOn(_, _)
SplitOn(s, sep) ==
    IF \A i \in 1..Len(s) : s[i] # sep THEN <<s>>
    ELSE LET k == CHOOSE i \in 1..Len(s) :
                      s[i] = sep /\ \A j \in 1..(i - 1) : s[j] # sep
         IN  <<SubSeq(s, 1, k - 1)>> \o SplitOn(SubSeq(s, k + 1, Len(s)), sep)

\* The numerals of the version segments in use.
Numerals == [n \in {"0", "1", "2", "9", "10"} |->
                CASE n = "0" -> 0 [] n = "1" -> 1 [] n = "2" -> 2
                  [] n = "9" -> 9 [] n = "10" -> 10]

\* Number(segment) || 0: the empty string and what is not a number count 0.
NumberOrZero(segment) ==
    IF Len(segment) = 1 /\ segment[1] \in DOMAIN Numerals
    THEN Numerals[segment[1]] ELSE 0

\* parts[i] || 0 for an index that may lie beyond the parts.
PartOrZero(parts, i) == IF i <= Len(parts) THEN NumberOrZero(parts[i]) ELSE 0

Max(a, b) == IF a >= b THEN a ELSE b

\* A comparison that looks at the first segment only.
CompareVersions_MajorOnly(a, b) ==
    PartOrZero(SplitOn(a, "."), 1) - PartOrZero(SplitOn(b, "."), 1)

\* compareVersions(a, b): negative, zero or positive.
CompareVersions(a, b) ==
    LET partsA == SplitOn(a, ".")
        partsB == SplitOn(b, ".")
        n == Max(Len(partsA), Len(partsB))
        differ == {i \in 1..n : PartOrZero(partsA, i) # PartOrZero(partsB, i)}
    IN  IF differ = {} THEN 0
        ELSE LET i == CHOOSE d \in differ : \A e \in differ : d <= e
             IN  PartOrZero(partsA, i) - PartOrZero(partsB, i)

\* tag.split("@").pop() ?? ""
VersionOfTag(tag) == LET parts == SplitOn(tag, "@") IN parts[Len(parts)]

\* The comparator getLastTag sorts with: the later version first.
LastTagOrder(a, b) == CompareVersions(VersionOfTag(b), VersionOfTag(a))

\* Array.prototype.sort with that comparator (a stable sort).
RECURSIVE InsertTag(_, _)
InsertTag(sorted, x) ==
    IF sorted = <<>> THEN <<x>>
    ELSE IF LastTagOrder(x, Head(sorted)) < 0 THEN <<x>> \o sorted
    ELSE <<Head(sorted)>> \o InsertTag(Tail(sorted), x)

RECURSIVE SortTags(_)
SortTags(tags) ==
    IF tags = <<>> THEN <<>>
    ELSE InsertTag(SortTags(SubSeq(tags, 1, Len(tags) - 1)), tags[Len(tags)])

\* getLastTag(packageName) over the tags git lists, in git's order.
GetLastTag(all, packageName) ==
    LET isMine(tag) == StartsWith(tag, packageName \o <<"@">>)
        packageTags == SortTags(SelectSeq(all, isMine))
    IN  IF Len(packageTags) > 0 THEN packageTags[1] ELSE <<>>

-----------------------------------------------------------------------------
(* GitService: push *)

\* The error push raises from its catch: the recovery hint, then the cause.
PushFailedMessage(cfg, branch, cause) ==
    <<"Push failed. Your branch is out of sync with remote.",
      "To force push, run with --force flag or manually:",
      "  git push --force ", cfg.remote, branch, "Original error: ">> \o cause

\* Push options that always set the upstream.
PushOptions_AlwaysUpstream(wt, force) ==
    <<"--follow-tags">> \o (IF force THEN <<"--force">> ELSE <<>>)
                        \o <<"--set-upstream">>

\* The options of the push: tags follow, force if asked, upstream if the
\* branch tracks none.
PushOptions(wt, force) ==
    <<"--follow-tags">> \o (IF force THEN <<"--force">> ELSE <<>>)
                        \o (IF wt.tracking = "" THEN <<"--set-upstream">> ELSE <<>>)

\* The catch block of push: getCurrentBranch reads the status once more; if
\* that read fails too, its error is the one raised.
PushCatch(cfg, wt, env, ops, cause) ==
    LET again == ops \o <<GitOp("status", <<>>, ~env.statusFailsAgain)>>
    IN  IF env.statusFailsAgain
        THEN StatusRun(again, Raised(GitFailure("status")))
        ELSE StatusRun(again, Raised(PushFailedMessage(cfg, wt.current, cause)))

\* push(force)
PushRun(cfg, wt, force, env) ==
    LET ops == <<GitOp("status", <<>>, ~env.statusFails)>>
        pushed == ops \o <<GitOp("push", <<cfg.remote, wt.current>>
                                            \o PushOptions(wt, force),
                                 ~env.pushFails)>>
    IN  IF env.statusFails
        THEN PushCatch(cfg, wt, env, ops, GitFailure("status"))
        ELSE IF wt.current = ""
        THEN PushCatch(cfg, wt, env, ops, NoBranchMessage)
        ELSE IF env.pushFails
        THEN PushCatch(cfg, wt, env, pushed, GitFailure("push"))
        ELSE StatusRun(pushed, Returned(<<>>))

\* What a push that succeeded leaves: the branch tracks its remote branch if
\* the upstream was set, and the remote holds the local tags.
TreeAfterPush(wt, op) ==
    IF op.cmd = "push" /\ op.ok /\ InArray(op.arg, "--set-upstream")
    THEN [wt EXCEPT !.tracking = "origin/branch"]
    ELSE wt

RemoteTagsAfterPush(lt, rt, ops) ==
    IF \E i \in 1..Len(ops) : ops[i].cmd = "push" /\ ops[i].ok
    THEN rt \cup lt ELSE rt

-----------------------------------------------------------------------------
(* GitService: commitChanges, and the generated commit message template *)

\* The default template generateMonorepoConfig writes for the package.json
\* it is given: the name is filled in when the file is generated, the
\* version placeholder is kept.
DefaultCommitMessage(rootName) ==
    <<"chore(release): release ">> \o rootName \o <<"@", "${version}">>

\* The git section of the generated configuration.
GeneratedGitConfig(rootName) ==
    DefaultGitConfig @@ [commitMessage |-> DefaultCommitMessage(rootName)]

\* String.prototype.replace with a string pattern: the first occurrence only.
ReplaceFirst(s, pattern, replacement) ==
    IF \A i \in 1..Len(s) : s[i] # pattern THEN s
    ELSE LET k == CHOOSE i \in 1..Len(s) :
                      s[i] = pattern /\ \A j \in 1..(i - 1) : s[j] # pattern
         IN  SubSeq(s, 1, k - 1) \o replacement \o SubSeq(s, k + 1, Len(s))

\* The commit message commitChanges builds from the template.
CommitMessage(cfg, context) ==
    ReplaceFirst(ReplaceFirst(cfg.commitMessage, "${packageName}", context.name),
                 "${version}", context.newVersion)

\* path.join(dir, file)
PathJoin(dir, file) == IF dir = <<>> THEN file ELSE dir \o <<"/">> \o file

\* The files commitChanges stages: the manifest and the changelog.
FilesToAdd(context, changelogPath) ==
    FilterBoolean(<<PathJoin(PathRelative(RootDir, context.path), <<"package.json">>),
                    PathRelative(RootDir, changelogPath)>>)

CommitFailedMessage(cause) == <<"Failed to commit changes: ">> \o cause

\* commitChanges(context, changelogPath)
CommitChangesRun(cfg, context, changelogPath, env) ==
    LET add == <<GitOp("add", FilesToAdd(context, changelogPath), ~env.addFails)>>
        commit == add \o <<GitOp("commit", CommitMessage(cfg, context),
                                 ~env.commitFails)>>
    IN  IF context.newVersion = <<>>
        THEN StatusRun(<<>>, Raised(<<"New version is required to create a commit message">>))
        ELSE IF env.addFails
        THEN StatusRun(add, Raised(CommitFailedMessage(GitFailure("add"))))
        ELSE IF env.commitFails
        THEN StatusRun(commit, Raised(CommitFailedMessage(GitFailure("commit"))))
        ELSE StatusRun(commit, Returned(<<>>))

\* What a commit that succeeded leaves: a new head, and no changed file
\* among those staged.
TreeAfterCommit(wt, staged) ==
    [wt EXCEPT !.head = "c1",
               !.files = SelectSeq(wt.files, LAMBDA f : ~InArray(staged, f))]

-----------------------------------------------------------------------------
(* The release command *)

\* An optional boolean option is "undefined", "true" or "false".
Truthy(x) == x = "true"
Negate(x) == IF Truthy(x) THEN "false" ELSE "true"

V200 == <<"2", ".", "0", ".", "0">>

NoRelCall == [op |-> "none"]
NotEnded  == [exit |-> -1, error |-> <<>>]
NoArgs    == [none |-> TRUE]

RelIdle ==
    /\ relCall = NoRelCall
    /\ relCalls = <<>>
    /\ relEnd = NotEnded

\* One call on the release service, the workspace service or the prompt.
ServiceCall(fn, target, options) == [fn |-> fn, target |-> target, options |-> options]

\* process.exit(code), and the action returning normally (exit status 0).
Exit(calls, code, error) == [calls |-> calls, exit |-> code, error |-> error]

\* The catch block of the action.
ReleaseFailed(calls, cause) == Exit(calls, 1, <<"Release failed:", cause>>)

\* The workspace queries that choose the packages, and the packages chosen.
TargetCalls(packages, o) ==
    IF Truthy(o.all) THEN <<ServiceCall("getChangedPackages", <<>>, NoArgs)>>
    ELSE IF packages = <<>> THEN <<ServiceCall("getCurrentPackage", <<>>, NoArgs)>>
    ELSE <<>>

PackagesToAnalyze(packages, o, env) ==
    IF Truthy(o.all) THEN env.changedPackages
    ELSE IF packages = <<>>
         THEN (IF env.currentPackage # <<>> THEN <<env.currentPackage>> ELSE <<>>)
         ELSE packages

\* What analyzeChanges returns: one change per package analysed.
AnalyzeChanges(targets, env) ==
    [i \in 1..Len(targets) |->
        [name |-> targets[i], suggestedVersion |-> env.suggested,
         hasGitChanges |-> env.hasGitChanges]]

\* showChanges ?? dryRun
ShowChangesSelected(o) ==
    IF o.showChanges # "undefined" THEN Truthy(o.showChanges) ELSE Truthy(o.dryRun)

\* The options createDryRunPreview is given for one analysed package.
DryRunPreviewOptions(o, change) ==
    [dryRun |-> "true", gitPush |-> o.gitPush, publish |-> o.npmPublish,
     skipGitCheck |-> Negate(o.gitCheck),
     skipUpstreamTracking |-> o.skipUpstreamTracking,
     force |-> o.force, newVersion |-> change.suggestedVersion]

\* The options releasePackages and releaseAll are given.
ReleaseOptions(o) ==
    [dryRun |-> o.dryRun, gitPush |-> o.gitPush, npmPublish |-> o.npmPublish,
     skipIntegrityCheck |-> o.checkIntegrity,
     skipGitCheck |-> Negate(o.gitCheck),
     skipUpstreamTracking |-> o.skipUpstreamTracking,
     force |-> o.force, allowBranch |-> o.allowBranch]

\* The service calls of the loop body for one analysed package.
ShowOne(o, change) ==
    IF Truthy(o.dryRun)
    THEN <<ServiceCall("createDryRunPreview", change.name,
                       DryRunPreviewOptions(o, change))>>
    ELSE <<ServiceCall("previewChangelog", change.name, NoArgs)>>
         \o (IF change.hasGitChanges
             THEN <<ServiceCall("getGitChanges", change.name, NoArgs)>>
             ELSE <<>>)

\* A dry run that does not end the command after its report.
DryRunExits_Never(o) == FALSE

\* if (commandOptions.dryRun) process.exit(0), after the loop.
DryRunExits(o) == Truthy(o.dryRun)

\* The release itself, after the calls made so far.
Proceed(calls, targets, o, env) ==
    LET call == IF Truthy(o.all)
                THEN ServiceCall("releaseAll", <<>>, ReleaseOptions(o))
                ELSE ServiceCall("releasePackages", targets, ReleaseOptions(o))
    IN  IF env.fails = "release"
        THEN ReleaseFailed(calls \o <<call>>, "release")
        ELSE Exit(calls \o <<call>>, 0, <<>>)

\* The show-changes block, then the release.
ShowChanges(calls, targets, o, env) ==
    LET analyze == <<ServiceCall("analyzeChanges", targets, NoArgs)>>
        changes == AnalyzeChanges(targets, env)
        first   == ShowOne(o, changes[1])
        shown   == Flatten([i \in 1..Len(changes) |-> ShowOne(o, changes[i])])
        confirm == <<ServiceCall("confirmRelease", <<>>, NoArgs)>>
    IN  IF env.fails = "analyzeChanges"
        THEN ReleaseFailed(calls \o analyze, "analyzeChanges")
        ELSE IF env.fails = "show"
        THEN ReleaseFailed(calls \o analyze \o <<first[1]>>, "show")
        ELSE IF DryRunExits(o)
        THEN Exit(calls \o analyze \o shown, 0, <<>>)
        ELSE IF ~env.confirm
        THEN Exit(calls \o analyze \o shown \o confirm, 0, <<>>)
        ELSE Proceed(calls \o analyze \o shown \o confirm, targets, o, env)

\* The release command's action on its arguments and options.
ReleaseRun(packages, o, env) ==
    LET calls   == TargetCalls(packages, o)
        targets == PackagesToAnalyze(packages, o, env)
    IN  IF targets = <<>>
        THEN Exit(calls, 1, <<"No packages to release.">>)
        ELSE IF ShowChangesSelected(o)
        THEN ShowChanges(calls, targets, o, env)
        ELSE Proceed(calls, targets, o, env)

-----------------------------------------------------------------------------
(* The validate command *)

NoValCall == [op |-> "none"]

ValIdle ==
    /\ valCall = NoValCall
    /\ valCalls = <<>>
    /\ valReports = <<>>
    /\ valEnd = NotEnded


\* The options object as the set of the flags given; any other is undefined.
Opt(options, flag) == IF flag \in options THEN "true" ELSE "undefined"

\* a ?? b ?? ... over optional booleans
RECURSIVE NullishChain(_)
NullishChain(values) ==
    IF Len(values) = 1 \/ Head(values) # "undefined" THEN Head(values)
    ELSE NullishChain(Tail(values))

OnlyFlag == [auth |-> "authOnly", git |-> "gitOnly", deps |-> "depsOnly",
             version |-> "versionOnly", changelog |-> "changelogOnly",
             publish |-> "publishOnly"]

SkipFlag == [auth |-> "skipAuth", git |-> "skipGit", deps |-> "skipDeps",
             version |-> "skipVersion", changelog |-> "skipChangelog",
             publish |-> "skipPublish"]

OnlyMode(options) ==
    NullishChain(<<Opt(options, "authOnly"), Opt(options, "gitOnly"),
                   Opt(options, "depsOnly"), Opt(options, "versionOnly"),
                   Opt(options, "changelogOnly"), Opt(options, "publishOnly")>>)

ShouldValidate(options, check) ==
    IF Truthy(OnlyMode(options))
    THEN Truthy(Opt(options, OnlyFlag[check]))
    ELSE ~Truthy(Opt(options, SkipFlag[check]))

\* The collaborator call `check` is the one that fails for package i.
Fails(env, i, check) == env.failing = [pkg |-> i, check |-> check]

\* runValidation: the result of one named validation, failed if it raised.
ValidationResult(name, error) ==
    [name |-> name, success |-> error = <<>>, error |-> error]

\* A step of validatePackage: the git operations and collaborator calls it
\* made and the validations it pushed.
Step(ops, calls, validations) ==
    [ops |-> ops, calls |-> calls, validations |-> validations]

NoStep == Step(<<>>, <<>>, <<>>)

\* validateGitStatus, under runValidation
GitStatusStep(cfg, wt, i, options, env) ==
    LET r == ValidateStatusRun(cfg, wt,
                 [skipUpstreamTracking |->
                      IF Truthy(Opt(options, "skipUpstreamTracking"))
                      THEN "true" ELSE "false",
                  force |-> FALSE, allowBranch |-> FALSE],
                 [statusFails |-> Fails(env, i, "status"),
                  fetchFails |-> Fails(env, i, "fetch")])
    IN  Step(r.ops, <<"validateStatus">>,
             <<ValidationResult("Git Status", r.result.message)>>)

\* validatePackageManager: its calls and the error it raises, <<>> if none.
PackageManagerRun(i, options, env) ==
    IF ~env.publish THEN [calls |-> <<>>, error |-> <<>>]
    ELSE IF Fails(env, i, "validateAuth")
    THEN [calls |-> <<"validateAuth">>, error |-> <<"Authentication failed: ">>]
    ELSE IF Truthy(Opt(options, "skipPublishCheck"))
    THEN [calls |-> <<"validateAuth">>, error |-> <<>>]
    ELSE IF Fails(env, i, "getLatestVersion")
    THEN [calls |-> <<"validateAuth", "getLatestVersion">>,
          error |-> <<"Version ", " already exists in registry. ">>]
    ELSE IF ~Truthy(Opt(options, "validatePack"))
    THEN [calls |-> <<"validateAuth", "getLatestVersion">>, error |-> <<>>]
    ELSE [calls |-> <<"validateAuth", "getLatestVersion", "pack">>,
          error |-> IF Fails(env, i, "pack")
                    THEN <<"Failed to pack package: ">> ELSE <<>>]

PackageManagerStep(i, options, env) ==
    LET r == PackageManagerRun(i, options, env)
    IN  Step(<<>>, r.calls, <<ValidationResult("Package Manager", r.error)>>)

\* validateDependencies: checkWithDetails may raise, or report issues of
\* severity error.
DependenciesRun(i, options, env) ==
    IF Truthy(Opt(options, "skipDependencyCheck"))
    THEN [calls |-> <<>>, error |-> <<>>]
    ELSE IF Fails(env, i, "checkWithDetails")
    THEN [calls |-> <<"checkWithDetails">>,
          error |-> IF Truthy(Opt(options, "depsReport"))
                    THEN <<>> ELSE <<"checkWithDetails failed">>]
    ELSE IF Truthy(Opt(options, "depsReportJson"))
    THEN [calls |-> <<"checkWithDetails">>, error |-> <<>>]
    ELSE [calls |-> <<"checkWithDetails">>,
          error |-> IF ~Truthy(Opt(options, "depsReport")) /\ Fails(env, i, "issues")
                    THEN <<"Dependency validation failed. Please address the issues above.">>
                    ELSE <<>>]

DependenciesStep(i, options, env) ==
    LET r == DependenciesRun(i, options, env)
    IN  Step(<<>>, r.calls, <<ValidationResult("Dependencies", r.error)>>)

\* validateVersioning
VersionStep(i, options, env) ==
    Step(<<>>, <<"validateVersion">>,
         <<ValidationResult("Version Format",
               IF Fails(env, i, "validateVersion")
               THEN <<"Invalid version format">> ELSE <<>>)>>)

\* validateChangelog
ChangelogStep(i, options, env) ==
    Step(<<>>, <<"changelog.validate">>,
         <<ValidationResult("Changelog",
               IF Fails(env, i, "changelog.validate")
               THEN <<"Invalid changelog">> ELSE <<>>)>>)

\* A sequencing that gives up after a failed validation.
Then_StopAfterFailure(a, b) ==
    IF \E k \in 1..Len(a.validations) : ~a.validations[k].success THEN a
    ELSE Step(a.ops \o b.ops, a.calls \o b.calls, a.validations \o b.validations)

Then(a, b) == Step(a.ops \o b.ops, a.calls \o b.calls, a.validations \o b.validations)

\* The checks of validatePackage, in the order of the code.
PackageChecks(cfg, wt, i, options, env) ==
    LET git == IF ShouldValidate(options, "git")
               THEN GitStatusStep(cfg, wt, i, options, env) ELSE NoStep
        pm  == IF ShouldValidate(options, "auth") \/ ShouldValidate(options, "publish")
               THEN PackageManagerStep(i, options, env) ELSE NoStep
        dep == IF ShouldValidate(options, "deps")
               THEN DependenciesStep(i, options, env) ELSE NoStep
        ver == IF ShouldValidate(options, "version")
               THEN VersionStep(i, options, env) ELSE NoStep
        log == IF ShouldValidate(options, "changelog")
               THEN ChangelogStep(i, options, env) ELSE NoStep
    IN  Then(Then(Then(Then(git, pm), dep), ver), log)

\* A validatePackage whose checks run without runValidation's catch: the
\* first failing check is thrown to the caller.
ValidatePackage_Uncaught(cfg, wt, i, options, env) ==
    LET c == PackageChecks(cfg, wt, i, options, env)
        failed == {k \in 1..Len(c.validations) : ~c.validations[k].success}
    IN  IF Fails(env, i, "getPackageConfig") \/ failed # {}
        THEN [ops |-> c.ops, calls |-> <<"getPackageConfig">> \o c.calls,
              report |-> <<>>, thrown |-> <<"check failed">>]
        ELSE [ops |-> c.ops, calls |-> <<"getPackageConfig">> \o c.calls,
              report |-> <<[packageName |-> env.found[i],
                            validations |-> c.validations,
                            hasErrors |-> FALSE]>>,
              thrown |-> <<>>]

\* validatePackage: the report, or the error getPackageConfig raised.
ValidatePackage(cfg, wt, i, options, env) ==
    IF Fails(env, i, "getPackageConfig")
    THEN [ops |-> <<>>, calls |-> <<"getPackageConfig">>, report |-> <<>>,
          thrown |-> <<"getPackageConfig failed">>]
    ELSE LET c == PackageChecks(cfg, wt, i, options, env)
         IN  [ops |-> c.ops, calls |-> <<"getPackageConfig">> \o c.calls,
              report |-> <<[packageName |-> env.found[i],
                            validations |-> c.validations,
                            hasErrors |-> \E k \in 1..Len(c.validations) :
                                              ~c.validations[k].success]>>,
              thrown |-> <<>>]

ValidateEnd(ops, calls, reports, code, error) ==
    [ops |-> ops, calls |-> calls, reports |-> reports, exit |-> code, error |-> error]

\* The loop of validate over the packages from the i-th on, then its end.
RECURSIVE ValidatePackages(_, _, _, _, _, _, _, _)
ValidatePackages(cfg, wt, i, options, env, ops, calls, reports) ==
    IF i > Len(env.found)
    THEN IF \E k \in 1..Len(reports) : reports[k].hasErrors
         THEN ValidateEnd(ops, calls, reports, 1, <<>>)
         ELSE ValidateEnd(ops, calls, reports, 0, <<>>)
    ELSE LET p == ValidatePackage(cfg, wt, i, options, env)
         IN  IF p.thrown # <<>>
             THEN ValidateEnd(ops \o p.ops, calls \o p.calls, reports, 1,
                              <<"Validation failed:">> \o p.thrown)
             ELSE ValidatePackages(cfg, TreeAfter(wt, p.ops), i + 1, options, env,
                                   ops \o p.ops, calls \o p.calls,
                                   reports \o p.report)

\* ValidateCommand.validate(packages, options)
ValidateRun(cfg, wt, options, env) ==
    IF Fails(env, 0, "getPackages")
    THEN ValidateEnd(<<>>, <<"getPackages">>, <<>>, 1,
                     <<"Validation failed:", "getPackages failed">>)
    ELSE IF env.found = <<>>
    THEN ValidateEnd(<<>>, <<"getPackages">>, <<>>, 1,
                     <<"No packages found to validate">>)
    ELSE ValidatePackages(cfg, wt, 1, options, env, <<>>, <<"getPackages">>, <<>>)

-----------------------------------------------------------------------------
(* Batch changelog validation: the changelog validate subcommand and        *)
(* validateChangelogs                                                       *)

NoChgCall == [op |-> "none"]

ChgIdle ==
    /\ chgCall = NoChgCall
    /\ chgCalls = <<>>
    /\ chgEnd = NotEnded

CmdIdle == RelIdle /\ ValIdle /\ ChgIdle

\* One collaborator call about one package.
PackageCall(fn, name) == [fn |-> fn, pkg |-> name]

ChangelogEnd(calls, code, error) == [calls |-> calls, exit |-> code, error |-> error]

InvalidChangelog(name) == <<"Invalid changelog: ">> \o name

\* The loop of the changelog validate subcommand from the i-th package on:
\* getPackageConfig, then changelogService.validate; an error ends the
\* command in its catch.
RECURSIVE ChangelogValidateLoop(_, _, _, _)
ChangelogValidateLoop(found, env, i, calls) ==
    IF i > Len(found) THEN ChangelogEnd(calls, 0, <<>>)
    ELSE LET made == calls \o <<PackageCall("getPackageConfig", found[i]),
                                 PackageCall("changelog.validate", found[i])>>
         IN  IF found[i] \in env.invalid
             THEN ChangelogEnd(made, 1, <<"Changelog validation failed:">>
                                           \o InvalidChangelog(found[i]))
             ELSE ChangelogValidateLoop(found, env, i + 1, made)

\* The action of the changelog validate subcommand on the packages found.
ChangelogValidateRun(found, env) ==
    IF found = <<>>
    THEN ChangelogEnd(<<>>, 1, <<"No packages found to validate">>)
    ELSE ChangelogValidateLoop(found, env, 1, <<>>)

\* The loop of validateChangelogs; a raised error leaves the function (2).
RECURSIVE ValidateChangelogsLoop(_, _, _, _)
ValidateChangelogsLoop(packages, env, i, calls) ==
    IF i > Len(packages) THEN ChangelogEnd(calls, 0, <<>>)
    ELSE IF packages[i] \in env.pathless
    THEN ChangelogEnd(calls, 2, <<"Invalid package path for ">> \o packages[i])
    ELSE LET made == calls \o <<PackageCall("changelog.validate", packages[i])>>
         IN  IF packages[i] \in env.invalid
             THEN ChangelogEnd(made, 2, InvalidChangelog(packages[i]))
             ELSE ValidateChangelogsLoop(packages, env, i + 1, made)

\* validateChangelogs(packages, config)
ValidateChangelogsRun(packages, env) ==
    IF packages = <<>>
    THEN ChangelogEnd(<<>>, 2, <<"No packages found to validate">>)
    ELSE ValidateChangelogsLoop(packages, env, 1, <<>>)

-----------------------------------------------------------------------------
(* The commit reader's inputs and calls *)

NoOptions == [given |-> FALSE, packageName |-> <<>>, packagePath |-> <<>>,
              filterByPath |-> FALSE]

\* An options object; <<>> is a field left undefined.
OptionObjects ==
    [given : {TRUE}, packageName : {<<>>, <<"a">>},
     packagePath : {<<>>, AbsPath(PkgRelA), AbsPath(PkgRelB)},
     filterByPath : BOOLEAN]

LogOptions == {NoOptions} \cup OptionObjects

LogTags == {<<>>, TagA1, TagMissing}

NoLogCall == [op |-> "none", tag |-> <<>>, options |-> NoOptions]

LogIdle ==
    /\ history = <<>>
    /\ tagPos = <<>>
    /\ logCall = NoLogCall
    /\ logResult = <<>>

LogInit ==
    /\ history \in Histories
    /\ tagPos \in {<<>>} \cup { (TagA1 :> k) : k \in 1..Len(history) }
    /\ logCall = NoLogCall
    /\ logResult = <<>>
    /\ GitIdle
    /\ CmdIdle

CallGetCommitsSinceTag ==
    \E tag \in LogTags, options \in LogOptions :
        /\ logCall = NoLogCall
        /\ logCall' = [op |-> "getCommitsSinceTag", tag |-> tag, options |-> options]
        /\ logResult' = GetCommitsSinceTag(history, tagPos, tag, options)
        /\ UNCHANGED <<history, tagPos, gitVars, cmdVars>>

CallGetAllCommits ==
    /\ logCall = NoLogCall
    /\ logCall' = [op |-> "getAllCommits", tag |-> <<>>, options |-> NoOptions]
    /\ logResult' = GetAllCommits(history)
    /\ UNCHANGED <<history, tagPos, gitVars, cmdVars>>

\* The caller has taken the result; the reader keeps no state between calls.
LogReturn ==
    /\ logCall # NoLogCall
    /\ logCall' = NoLogCall
    /\ logResult' = <<>>
    /\ UNCHANGED <<history, tagPos, gitVars, cmdVars>>

LogNext == CallGetCommitsSinceTag \/ CallGetAllCommits \/ LogReturn

SpecLog == LogInit /\ [][LogNext]_vars

-----------------------------------------------------------------------------
(* Claims about the commit reader *)

SinceTagCall ==
    /\ logCall.op = "getCommitsSinceTag"
    /\ logCall.tag # <<>>
    /\ logCall.tag \in DOMAIN tagPos

\* The commits parsed from the log of tag..HEAD, before any filter.
ParsedSinceTag == ParseLog(GitLogOutput(SinceTag(history, tagPos, logCall.tag)))

TouchesPath(c, relativePath) ==
    \E k \in 1..Len(c.files) : StartsWith(c.files[k], relativePath)

MentionsPackage(c, packageName) ==
    \/ Includes(c.message, Marker(packageName))
    \/ \E k \in 1..Len(c.body) : Includes(c.body[k], Marker(packageName))

\* C1: getCommitsSinceTag with an empty tag returns exactly what getAllCommits
\* returns on the same repository, in the same order, whatever the options
\* (none, path only, name only, both): no filter is applied.
C1_EmptyTagIsAllCommits ==
    (logCall.op = "getCommitsSinceTag" /\ logCall.tag = <<>>)
        => logResult = GetAllCommits(history)

\* An empty-tag call with both filter inputs whose result holds a commit the
\* filter would have dropped.
C1_Witness ==
    /\ logCall.op = "getCommitsSinceTag"
    /\ logCall.tag = <<>>
    /\ logCall.options.given
    /\ logCall.options.packageName # <<>>
    /\ logCall.options.packagePath # <<>>
    /\ logResult # <<>>
    /\ ApplyFilters(logResult, logCall.options) # logResult

\* C9: with a non-empty tag and both packagePath and packageName, the result
\* is exactly the parsed commits, in order, that touch a file whose path has
\* the package's relative path as a prefix OR mention (packageName) in the
\* subject or body: a commit doing neither is excluded, a commit touching a
\* file under the path is included whatever its subject.
C9_FilterIsPathOrName ==
    (/\ SinceTagCall
     /\ logCall.options.given
     /\ logCall.options.packageName # <<>>
     /\ logCall.options.packagePath # <<>>)
        => LET rel  == PathRelative(RootDir, logCall.options.packagePath)
               name == logCall.options.packageName
               keep(c) == TouchesPath(c, rel) \/ MentionsPackage(c, name)
           IN  /\ logResult = SelectSeq(ParsedSinceTag, keep)
               /\ \A i \in 1..Len(ParsedSinceTag) :
                     LET c == ParsedSinceTag[i]
                     IN  /\ (~TouchesPath(c, rel) /\ ~MentionsPackage(c, name))
                               => \A j \in 1..Len(logResult) : logResult[j] # c
                         /\ TouchesPath(c, rel)
                               => \E j \in 1..Len(logResult) : logResult[j] = c

\* A filtered call that keeps a commit matched by its path alone, and drops
\* another that touches only the other package and lacks the marker.
C9_Witness ==
    /\ SinceTagCall
    /\ logCall.options.given
    /\ logCall.options.packageName # <<>>
    /\ logCall.options.packagePath # <<>>
    /\ LET rel  == PathRelative(RootDir, logCall.options.packagePath)
           name == logCall.options.packageName
       IN  /\ \E j \in 1..Len(logResult) :
                 TouchesPath(logResult[j], rel)
                 /\ ~MentionsPackage(logResult[j], name)
           /\ \E i \in 1..Len(ParsedSinceTag) :
                 /\ ParsedSinceTag[i].files # <<>>
                 /\ ~TouchesPath(ParsedSinceTag[i], rel)
                 /\ ~MentionsPackage(ParsedSinceTag[i], name)
                 /\ \A j \in 1..Len(logResult) : logResult[j] # ParsedSinceTag[i]

\* C10: with a non-empty tag and neither filter input present (no options
\* argument, or an options object with neither packagePath nor packageName),
\* no filtering is applied and every parsed commit is returned.
C10_NoInputsNoFilter ==
    (/\ SinceTagCall
     /\ logCall.options.packageName = <<>>
     /\ logCall.options.packagePath = <<>>)
        => logResult = ParsedSinceTag

\* C11: given a tag that does not exist in the repository, getCommitsSinceTag
\* returns all commits, the same list getAllCommits returns.
C11_MissingTagIsAllCommits ==
    (/\ logCall.op = "getCommitsSinceTag"
     /\ logCall.tag # <<>>
     /\ logCall.tag \notin DOMAIN tagPos)
        => logResult = GetAllCommits(history)

\* A reader call that applies no filter, and the commits whose log it reads.
UnfilteredCall ==
    \/ logCall.op = "getAllCommits"
    \/ /\ logCall.op = "getCommitsSinceTag"
       /\ ~logCall.options.given
       /\ logCall.tag = <<>> \/ logCall.tag \in DOMAIN tagPos

CommitsRead ==
    IF logCall.op = "getCommitsSinceTag" /\ logCall.tag # <<>>
    THEN SinceTag(history, tagPos, logCall.tag)
    ELSE Commits(history)

\* C23: a log record lacking hash, date or subject is skipped and is not
\* fatal: every commit emitted carries the hash, date and subject of one
\* commit of the log, none of them empty or taken from another field, and
\* every commit of the log that has a subject is emitted.
C23_MalformedRecordSkipped ==
    UnfilteredCall =>
        /\ \A j \in 1..Len(logResult) :
              \E i \in 1..Len(CommitsRead) :
                  /\ CommitsRead[i].subject # <<>>
                  /\ logResult[j].hash = CommitsRead[i].hash
                  /\ logResult[j].date = Date
                  /\ logResult[j].message = CommitsRead[i].subject
        /\ \A i \in 1..Len(CommitsRead) :
              CommitsRead[i].subject # <<>> =>
                  \E j \in 1..Len(logResult) :
                      logResult[j].hash = CommitsRead[i].hash

-----------------------------------------------------------------------------
(* changelog preview: the commits shown for one package *)

\* A workspace package as the preview loop reads it.
PreviewPackages ==
    { [name |-> <<"a">>, path |-> AbsPath(PkgRelA)],
      [name |-> <<"b">>, path |-> AbsPath(PkgRelB)] }

\* The tags `git tag` lists, in some order.
ListedTags(tp) ==
    IF DOMAIN tp = {} THEN <<>> ELSE <<CHOOSE t \in DOMAIN tp : TRUE>>

\* The options object the preview hands to getCommitsSinceTag.
PreviewOptions(pkg, filterByPackage) ==
    [given |-> TRUE, packageName |-> pkg.name, packagePath |-> pkg.path,
     filterByPath |-> filterByPackage]

\* gitChanges of the preview loop body.
PreviewChanges(h, tp, pkg, filterByPackage) ==
    LET lastTag == GetLastTag(ListedTags(tp), pkg.name)
    IN  IF lastTag # <<>>
        THEN GetCommitsSinceTag(h, tp, lastTag, PreviewOptions(pkg, filterByPackage))
        ELSE GetAllCommits(h)

ChangelogPreview ==
    /\ logCall = NoLogCall
    /\ \E pkg \in PreviewPackages, filterByPackage \in BOOLEAN :
        /\ logCall' = [op |-> "preview",
                       tag |-> GetLastTag(ListedTags(tagPos), pkg.name),
                       options |-> PreviewOptions(pkg, filterByPackage)]
        /\ logResult' = PreviewChanges(history, tagPos, pkg, filterByPackage)
        /\ UNCHANGED <<history, tagPos, gitVars, cmdVars>>

PreviewNext == ChangelogPreview \/ LogReturn

SpecPreview == LogInit /\ [][PreviewNext]_vars

\* A file inside the directory, not merely one whose path starts with its name.
InsideDirectory(file, relativePath) == StartsWith(file, relativePath \o <<"/">>)

\* The commits the preview starts from: those since the package's last tag,
\* or the whole history when it has none.
PreviewCandidates ==
    IF logCall.tag # <<>>
    THEN ParseLog(GitLogOutput(SinceTag(history, tagPos, logCall.tag)))
    ELSE GetAllCommits(history)

\* C22: in changelog preview with --filter-by-package every commit listed has
\* a changed file inside the package's directory, and without the flag the
\* commits are not restricted by path.
C22_FilterByPackageIsByPath ==
    logCall.op = "preview" =>
        LET rel == PathRelative(RootDir, logCall.options.packagePath)
        IN  /\ logCall.options.filterByPath =>
                  \A i \in 1..Len(logResult) :
                      \E k \in 1..Len(logResult[i].files) :
                          InsideDirectory(logResult[i].files[k], rel)
            /\ ~logCall.options.filterByPath =>
                  \A i \in 1..Len(PreviewCandidates) :
                      (\A k \in 1..Len(PreviewCandidates[i].files) :
                          ~InsideDirectory(PreviewCandidates[i].files[k], rel))
                      => \E j \in 1..Len(logResult) :
                             logResult[j] = PreviewCandidates[i]

-----------------------------------------------------------------------------
(* GitService: hasChanges *)

\* path.basename
Basename(p) == <<p[Len(p)]>>

\* hasChanges(packagePath) with the changed files `files` git status reports
\* and the tags `all` git lists.
HasChanges(h, tp, all, files, packagePath) ==
    LET relativePath == PathRelative(RootDir, packagePath)
        hasUncommittedChanges ==
            \E k \in 1..Len(files) : StartsWith(files[k], relativePath)
        lastTag == GetLastTag(all, Basename(packagePath))
        commits == GetCommitsSinceTag(h, tp, lastTag,
                       [given |-> TRUE, packageName |-> <<>>,
                        packagePath |-> packagePath, filterByPath |-> FALSE])
    IN  IF hasUncommittedChanges THEN TRUE ELSE Len(commits) > 0

\* What git status may list as changed.
ChangedFiles == { <<>>, <<FileA>>, <<FileB>>, <<FileAB>> }

ChangesInit ==
    /\ history \in Histories
    /\ tagPos \in {<<>>} \cup { (TagA1 :> k) : k \in 1..Len(history) }
    /\ logCall = NoLogCall
    /\ logResult = <<>>
    /\ gitConfig = DefaultGitConfig
    /\ localTags = {}
    /\ remoteTags = {}
    /\ workTree \in { [CleanTree EXCEPT !.files = f] : f \in ChangedFiles }
    /\ gitCall = NoGitCall
    /\ gitOps = <<>>
    /\ gitResult = NoResult
    /\ CmdIdle

CallHasChanges ==
    /\ logCall = NoLogCall
    /\ \E pkg \in PreviewPackages :
        /\ logCall' = [op |-> "hasChanges", tag |-> <<>>,
                       options |-> [given |-> TRUE, packageName |-> pkg.name,
                                    packagePath |-> pkg.path, filterByPath |-> FALSE]]
        /\ logResult' = << HasChanges(history, tagPos, ListedTags(tagPos),
                                      workTree.files, pkg.path) >>
        /\ UNCHANGED <<history, tagPos, gitVars, cmdVars>>

ChangesNext == CallHasChanges \/ LogReturn

SpecChanges == ChangesInit /\ [][ChangesNext]_vars

\* The commits made since the last release tag of the package asked about,
\* all of them when it was never tagged.
SinceLastRelease ==
    LET tags == { t \in DOMAIN tagPos :
                    StartsWith(t, logCall.options.packageName \o <<"@">>) }
    IN  IF tags = {} THEN Commits(history)
        ELSE SinceTag(history, tagPos, CHOOSE t \in tags : TRUE)

\* C27: hasChanges(packagePath) returns true only if an uncommitted file lies
\* under the package path or a commit made since the package's last release
\* tag touches a file under it; otherwise it returns false, also for a
\* package that was never tagged.
C27_ChangesAreUnderPath ==
    logCall.op = "hasChanges" =>
        LET rel == PathRelative(RootDir, logCall.options.packagePath)
        IN  logResult[1] <=>
              \/ \E k \in 1..Len(workTree.files) :
                    InsideDirectory(workTree.files[k], rel)
              \/ \E i \in 1..Len(SinceLastRelease) :
                    \E k \in 1..Len(SinceLastRelease[i].files) :
                        InsideDirectory(SinceLastRelease[i].files[k], rel)

-----------------------------------------------------------------------------
(* The tag operations' inputs and calls *)

PackageNames == { <<"a">>, <<"b">> }

\* A PackageContext as createTag reads it; <<>> is a newVersion left unset.
TagContexts == [name : PackageNames, newVersion : {<<>>, V100, V101}]

\* What the environment does to the git operations of one call.
TagEnvs == [tagDeleteFails : BOOLEAN, remoteDeleteFails : BOOLEAN,
            addTagFails : BOOLEAN]

TagConfigs ==
    { [DefaultGitConfig EXCEPT !.remote = r, !.tagPrefix = p] :
        r \in {"origin", ""}, p \in {<<>>, <<"v">>} }

\* The tags a repository may hold when the service is constructed.
TagUniverse(cfg) ==
    { GetTagName(cfg, <<"a">>, V100), GetTagName(cfg, <<"a">>, V101),
      GetTagName(cfg, <<"b">>, V101) }

Init ==
    /\ gitConfig \in TagConfigs
    /\ localTags \in SUBSET TagUniverse(gitConfig)
    /\ remoteTags \in SUBSET TagUniverse(gitConfig)
    /\ workTree = CleanTree
    /\ gitCall = NoGitCall
    /\ gitOps = <<>>
    /\ gitResult = NoResult
    /\ LogIdle
    /\ CmdIdle

CreateTag ==
    \E context \in TagContexts, force \in BOOLEAN, env \in TagEnvs :
        LET r == CreateTagRun(gitConfig, localTags, remoteTags, context, force, env)
        IN  /\ gitCall = NoGitCall
            /\ gitCall' = [op |-> "createTag", context |-> context, force |-> force,
                           env |-> env, localBefore |-> localTags,
                           remoteBefore |-> remoteTags]
            /\ gitOps' = r.ops
            /\ gitResult' = r.result
            /\ localTags' = r.localTags
            /\ remoteTags' = r.remoteTags
            /\ UNCHANGED <<gitConfig, workTree, logVars, cmdVars>>

DeleteTag ==
    \E tagName \in TagUniverse(gitConfig), remote \in BOOLEAN, env \in TagEnvs :
        LET r == DeleteTagRun(gitConfig, localTags, remoteTags, tagName, remote, env)
        IN  /\ gitCall = NoGitCall
            /\ ~env.addTagFails
            /\ gitCall' = [op |-> "deleteTag", tagName |-> tagName, remote |-> remote,
                           env |-> env, localBefore |-> localTags,
                           remoteBefore |-> remoteTags]
            /\ gitOps' = r.ops
            /\ gitResult' = r.result
            /\ localTags' = r.localTags
            /\ remoteTags' = r.remoteTags
            /\ UNCHANGED <<gitConfig, workTree, logVars, cmdVars>>

\* The caller has taken the result; the repository keeps its tags.
GitReturn ==
    /\ gitCall # NoGitCall
    /\ gitCall' = NoGitCall
    /\ gitOps' = <<>>
    /\ gitResult' = NoResult
    /\ UNCHANGED <<gitConfig, localTags, remoteTags, workTree, logVars, cmdVars>>

Next == CreateTag \/ DeleteTag \/ GitReturn

Spec == Init /\ [][Next]_vars

-----------------------------------------------------------------------------
(* Claims about createTag *)

\* The name of the tag the last createTag call was about.
CalledTag == GetTagName(gitConfig, gitCall.context.name, gitCall.context.newVersion)

\* The last call was createTag, with a version, for a tag that existed locally.
CreateTagOverExisting ==
    /\ gitCall.op = "createTag"
    /\ gitCall.context.newVersion # <<>>
    /\ CalledTag \in gitCall.localBefore

\* The positions in the call's operations of a command on the called tag.
OpsAt(cmd) == { i \in 1..Len(gitOps) : gitOps[i].cmd = cmd }

\* C2: createTag for a tag that exists locally, without force, fails with the
\* "already exists" error that names the manual deletion steps (git tag -d and
\* git push <remote> :refs/tags/<tag>); it issues no tag deletion and no
\* addAnnotatedTag, and the local and remote tags are as before the call.
C2_ExistingTagWithoutForce ==
    (CreateTagOverExisting /\ ~gitCall.force)
        => /\ gitResult.status = "error"
           /\ Includes(gitResult.message, <<"Tag ">> \o CalledTag \o <<" ", "already exists">>)
           /\ Includes(gitResult.message, <<"git tag -d ">> \o CalledTag)
           /\ Includes(gitResult.message,
                       <<"git push ", gitConfig.remote, " :refs/tags/">> \o CalledTag)
           /\ OpsAt("tag -d") = {}
           /\ OpsAt("push :refs/tags") = {}
           /\ OpsAt("addAnnotatedTag") = {}
           /\ localTags = gitCall.localBefore
           /\ remoteTags = gitCall.remoteBefore

\* An unforced createTag over a tag that exists locally and remotely.
C2_Witness ==
    /\ CreateTagOverExisting
    /\ ~gitCall.force
    /\ CalledTag \in gitCall.remoteBefore
    /\ gitResult.status = "error"

\* Some operation of the call with this command succeeded / failed.
OpSucceeded(cmd) == \E i \in OpsAt(cmd) : gitOps[i].ok
OpFailed(cmd)    == \E i \in OpsAt(cmd) : ~gitOps[i].ok

\* C3 as stated: a forced createTag over an existing local tag deletes the
\* local tag, then attempts the remote deletion, then issues addAnnotatedTag,
\* in that order; when the steps succeed it returns the tag name and the tag
\* exists locally.
C3_DeleteRemoteAddAlways ==
    (CreateTagOverExisting /\ gitCall.force)
        => /\ \A k \in OpsAt("addAnnotatedTag") :
                 \E i \in OpsAt("tag -d"), j \in OpsAt("push :refs/tags") :
                     i < j /\ j < k /\ gitOps[i].ok
           /\ (OpSucceeded("tag -d") /\ OpSucceeded("addAnnotatedTag"))
                 => (gitResult = Returned(CalledTag) /\ CalledTag \in localTags)

\* C3 (amended): a forced createTag over an existing local tag issues
\* addAnnotatedTag only after the local tag was deleted; the remote deletion
\* is attempted exactly when a remote is configured, after the local deletion
\* and before the add; when the local deletion and the add succeed, createTag
\* returns the tag name and the tag exists locally.
C3_DeleteThenAdd ==
    (CreateTagOverExisting /\ gitCall.force)
        => /\ \A k \in OpsAt("addAnnotatedTag") :
                 /\ \E i \in OpsAt("tag -d") :
                       i < k /\ gitOps[i].ok /\ gitOps[i].arg = CalledTag
                 /\ gitConfig.remote # ""
                       => \E j \in OpsAt("push :refs/tags") : j < k
           /\ \A j \in OpsAt("push :refs/tags") :
                 /\ gitConfig.remote # ""
                 /\ gitOps[j].arg = CalledTag
                 /\ \E i \in OpsAt("tag -d") : i < j /\ gitOps[i].ok
                 /\ \E k \in OpsAt("addAnnotatedTag") : j < k
           /\ (OpSucceeded("tag -d") /\ OpSucceeded("addAnnotatedTag"))
                 => (gitResult = Returned(CalledTag) /\ CalledTag \in localTags)

\* A forced createTag over a tag that existed locally and remotely, with all
\* three steps issued and successful.
C3_Witness ==
    /\ CreateTagOverExisting
    /\ gitCall.force
    /\ OpSucceeded("tag -d")
    /\ OpSucceeded("push :refs/tags")
    /\ OpSucceeded("addAnnotatedTag")
    /\ gitResult = Returned(CalledTag)
    /\ CalledTag \in localTags
    /\ CalledTag \notin remoteTags

\* C4: in a forced createTag over an existing tag, a failed remote deletion
\* is tolerated (addAnnotatedTag is still issued, and createTag returns the
\* tag when it succeeds), while a failed local deletion makes createTag fail
\* without addAnnotatedTag being issued.
C4_RemoteToleratedLocalFatal ==
    (CreateTagOverExisting /\ gitCall.force)
        => /\ OpFailed("push :refs/tags")
                 => /\ OpsAt("addAnnotatedTag") # {}
                    /\ OpSucceeded("addAnnotatedTag")
                          => (gitResult = Returned(CalledTag)
                              /\ CalledTag \in localTags)
           /\ OpFailed("tag -d")
                 => /\ gitResult.status = "error"
                    /\ OpsAt("addAnnotatedTag") = {}
                    /\ OpsAt("push :refs/tags") = {}

\* A forced createTag whose remote deletion failed and which still returned
\* the tag.
C4_Witness ==
    /\ CreateTagOverExisting
    /\ gitCall.force
    /\ OpFailed("push :refs/tags")
    /\ gitResult = Returned(CalledTag)
    /\ CalledTag \in localTags

\* C28: whenever createTag raises an error the local tags are the same as
\* before the call; with force, a tag that existed before the call is not
\* lost when re-creating it fails after the deletion.
C28_FailedCreateKeepsTags ==
    (gitCall.op = "createTag" /\ gitResult.status = "error")
        => localTags = gitCall.localBefore

-----------------------------------------------------------------------------
(* validateStatus: inputs and calls *)

StatusOptions ==
    [skipUpstreamTracking : {"undefined", "true", "false"},
     force : BOOLEAN, allowBranch : BOOLEAN]

StatusEnvs == [statusFails : BOOLEAN, fetchFails : BOOLEAN]

StatusConfigs ==
    { [DefaultGitConfig EXCEPT !.requireCleanWorkingDirectory = c,
                               !.requireUpToDate = u,
                               !.allowedBranches = a] :
        c \in BOOLEAN, u \in BOOLEAN, a \in {<<>>, <<"main", "master">>} }

\* What git status may report: a detached HEAD tracks nothing, and only a
\* tracking branch is behind its upstream.
Trees ==
    { wt \in [files : {<<>>, <<FileA>>}, current : {"", "main", "feature"},
              tracking : {"", "origin/branch"}, behind : {0, 2},
              remoteBehind : {0, 2}, head : {"c0"}] :
        /\ wt.current = "" => wt.tracking = ""
        /\ wt.tracking = "" => (wt.behind = 0 /\ wt.remoteBehind = 0)
        /\ wt.behind <= wt.remoteBehind }

StatusInit ==
    /\ gitConfig \in StatusConfigs
    /\ workTree \in Trees
    /\ localTags = {}
    /\ remoteTags = {}
    /\ gitCall = NoGitCall
    /\ gitOps = <<>>
    /\ gitResult = NoResult
    /\ LogIdle
    /\ CmdIdle

ValidateStatus ==
    \E options \in StatusOptions, env \in StatusEnvs :
        LET r == ValidateStatusRun(gitConfig, workTree, options, env)
        IN  /\ gitCall = NoGitCall
            /\ gitCall' = [op |-> "validateStatus", options |-> options, env |-> env,
                           localBefore |-> localTags, remoteBefore |-> remoteTags,
                           treeBefore |-> workTree]
            /\ gitOps' = r.ops
            /\ gitResult' = r.result
            /\ workTree' = TreeAfter(workTree, r.ops)
            /\ UNCHANGED <<gitConfig, localTags, remoteTags, logVars, cmdVars>>

StatusNext == ValidateStatus \/ GitReturn

SpecStatus == StatusInit /\ [][StatusNext]_vars

-----------------------------------------------------------------------------
(* Claims about validateStatus *)

\* The last call was validateStatus on a branch outside a non-empty allow-list,
\* with neither force nor allowBranch.
DisallowedBranchCall ==
    /\ gitCall.op = "validateStatus"
    /\ gitConfig.allowedBranches # <<>>
    /\ gitCall.treeBefore.current # ""
    /\ ~InArray(gitConfig.allowedBranches, gitCall.treeBefore.current)
    /\ ~gitCall.options.force
    /\ ~gitCall.options.allowBranch

\* The failures of the checks that run before the allow-list check.
EarlierFailures ==
    { GitFailure("status"), GitFailure("fetch"), NoBranchMessage,
      NotCleanMessage(gitCall.treeBefore.files),
      BehindMessage(gitCall.treeBefore) }

\* C7: with a non-empty allowedBranches that lacks the current branch and
\* neither force nor allowBranch, validateStatus fails with the
\* disallowed-branch error, tracked upstream or not, whatever
\* skipUpstreamTracking and requireUpToDate (a failure of an earlier check,
\* which is raised first, set aside).
C7_DisallowedBranchFails ==
    (DisallowedBranchCall /\ gitResult.message \notin EarlierFailures)
        => gitResult =
             Raised(BranchNotAllowedMessage(gitConfig, gitCall.treeBefore))

\* The fetch of the last validateStatus call completed.
Fetched == \E i \in 1..Len(gitOps) : gitOps[i].cmd = "fetch" /\ gitOps[i].ok

\* C25: with requireUpToDate set and force not set, validateStatus fails
\* whenever the fetch it performs reveals the current branch to be behind its
\* tracked upstream.
C25_BehindAfterFetchFails ==
    (/\ gitCall.op = "validateStatus"
     /\ gitConfig.requireUpToDate
     /\ ~gitCall.options.force
     /\ Fetched
     /\ gitCall.treeBefore.tracking # ""
     /\ gitCall.treeBefore.remoteBehind > 0)
        => gitResult.status = "error"

\* A validateStatus call whose status read succeeded.
StatusRead == gitCall.op = "validateStatus" /\ ~gitCall.env.statusFails

\* The tree of the call, had it no changed file.
TreeBeforeCleaned == [gitCall.treeBefore EXCEPT !.files = <<>>]

\* C29: with requireCleanWorkingDirectory set and changed files in the
\* working tree, validateStatus fails with the not-clean error listing those
\* files before any fetch is issued, whatever the options; with
\* requireCleanWorkingDirectory not set the changed files make no difference
\* to the outcome.
C29_DirtyTreeFailsFirst ==
    StatusRead =>
        /\ (gitConfig.requireCleanWorkingDirectory /\ gitCall.treeBefore.files # <<>>)
              => /\ gitResult.status = "error"
                 /\ Includes(gitResult.message, <<"Working directory is not clean. The following files have changes:">>)
                 /\ \A k \in 1..Len(gitCall.treeBefore.files) :
                       Includes(gitResult.message, gitCall.treeBefore.files[k])
                 /\ \A i \in 1..Len(gitOps) : gitOps[i].cmd # "fetch"
        /\ ~gitConfig.requireCleanWorkingDirectory
              => gitResult = ValidateStatusRun(gitConfig, TreeBeforeCleaned,
                                               gitCall.options, gitCall.env).result

\* A dirty tree refused although force, allowBranch and skipUpstreamTracking
\* were all given.
C29_Witness ==
    /\ StatusRead
    /\ gitConfig.requireCleanWorkingDirectory
    /\ gitCall.treeBefore.files # <<>>
    /\ gitCall.options.force
    /\ gitCall.options.allowBranch
    /\ gitCall.options.skipUpstreamTracking = "true"
    /\ gitResult.status = "error"
    /\ gitOps = <<GitOp("status", <<>>, TRUE)>>

-----------------------------------------------------------------------------
(* The release command: inputs and runs *)

\* commander leaves a flag that was not given undefined; a --no-x option is
\* true unless given.  The three options that are only passed through are
\* varied together.
Flag == {"undefined", "true"}
Negatable == {"true", "false"}

PassedThrough ==
    { [gitCheck |-> "true", skipUpstreamTracking |-> "undefined", allowBranch |-> "undefined"],
      [gitCheck |-> "false", skipUpstreamTracking |-> "true", allowBranch |-> "true"] }

ReleaseCommandOptions ==
    { [all |-> a, dryRun |-> d, version |-> v, gitPush |-> g, npmPublish |-> n,
       showChanges |-> sc, checkIntegrity |-> ci, force |-> f,
       gitCheck |-> pt.gitCheck, skipUpstreamTracking |-> pt.skipUpstreamTracking,
       allowBranch |-> pt.allowBranch] :
        a \in Flag, d \in Flag, v \in {<<>>, V200}, g \in Negatable,
        n \in Negatable, sc \in Flag, ci \in Flag, f \in Flag,
        pt \in PassedThrough }

ReleaseArguments == { <<>>, << <<"a">> >>, << <<"a">>, <<"b">> >> }

\* What the collaborators answer, and which of them raises.
ReleaseEnvs ==
    [changedPackages : { <<>>, << <<"a">>, <<"b">> >> },
     currentPackage : { <<>>, <<"a">> },
     suggested : {V101, V200},
     hasGitChanges : BOOLEAN,
     confirm : BOOLEAN,
     fails : {"none", "analyzeChanges", "show", "release"}]

ReleaseInit ==
    /\ CmdIdle
    /\ LogIdle
    /\ GitIdle

ReleaseCommand ==
    /\ relCall = NoRelCall
    /\ \E packages \in ReleaseArguments, o \in ReleaseCommandOptions, env \in ReleaseEnvs :
        LET r == ReleaseRun(packages, o, env)
        IN  /\ relCall' = [op |-> "release", packages |-> packages, options |-> o,
                           env |-> env]
            /\ relCalls' = r.calls
            /\ relEnd' = [exit |-> r.exit, error |-> r.error]
            /\ UNCHANGED <<logVars, gitVars, valVars, chgVars>>

\* The process has ended; the next invocation starts afresh.
ReleaseReturn ==
    /\ relCall # NoRelCall
    /\ relCall' = NoRelCall
    /\ relCalls' = <<>>
    /\ relEnd' = NotEnded
    /\ UNCHANGED <<logVars, gitVars, valVars, chgVars>>

ReleaseNext == ReleaseCommand \/ ReleaseReturn

SpecRelease == ReleaseInit /\ [][ReleaseNext]_vars

-----------------------------------------------------------------------------
(* Claims about the release command *)

DryRunCommand == relCall # NoRelCall /\ Truthy(relCall.options.dryRun)

CalledFns == {relCalls[i].fn : i \in 1..Len(relCalls)}

WorkspaceFns == {"getChangedPackages", "getCurrentPackage"}

DryRunFns == {"analyzeChanges", "createDryRunPreview"}

ReleaseFns == {"releasePackages", "releaseAll"}

CallsOf(fn) == {i \in 1..Len(relCalls) : relCalls[i].fn = fn}

TargetsOfCall == PackagesToAnalyze(relCall.packages, relCall.options, relCall.env)

RequestVersion(call) ==
    IF "newVersion" \in DOMAIN call.options THEN call.options.newVersion
    ELSE IF "version" \in DOMAIN call.options THEN call.options.version
    ELSE <<>>

\* C8: when the release command is given an explicit version, every dry-run
\* preview and every release request it makes carries that version.
C8_ExplicitVersionUsed ==
    (relCall # NoRelCall /\ relCall.options.version # <<>>) =>
        \A i \in 1..Len(relCalls) :
            relCalls[i].fn \in {"createDryRunPreview"} \cup ReleaseFns =>
                RequestVersion(relCalls[i]) = relCall.options.version

\* C21: when the release command is given --check-integrity, the release
\* service is invoked with the integrity check enabled (skipIntegrityCheck not
\* set), and skipping is requested only when --check-integrity was not given.
C21_CheckIntegrityEnablesCheck ==
    relCall # NoRelCall =>
        \A i \in 1..Len(relCalls) :
            relCalls[i].fn \in ReleaseFns =>
                /\ Truthy(relCall.options.checkIntegrity) =>
                        ~Truthy(relCalls[i].options.skipIntegrityCheck)
                /\ Truthy(relCalls[i].options.skipIntegrityCheck) =>
                        ~Truthy(relCall.options.checkIntegrity)

-----------------------------------------------------------------------------
(* The validate command: inputs and runs *)

MaxFlags == 2

ValidateFlags ==
    {"all", "authOnly", "gitOnly", "depsOnly", "versionOnly", "changelogOnly",
     "publishOnly", "skipAuth", "skipGit", "skipDeps", "skipVersion",
     "skipChangelog", "skipPublish", "skipUpstreamTracking", "skipPublishCheck",
     "skipDependencyCheck", "validatePack", "depsReport", "depsReportJson"}

\* The option objects with at most n flags given.
RECURSIVE FlagSets(_)
FlagSets(n) ==
    IF n = 0 THEN {{}}
    ELSE LET fewer == FlagSets(n - 1)
         IN  fewer \cup {o \cup {f} : o \in fewer, f \in ValidateFlags}

ValidateOptions == FlagSets(MaxFlags)

PackageCalls ==
    {"getPackageConfig", "status", "fetch", "validateAuth", "getLatestVersion",
     "pack", "checkWithDetails", "issues", "validateVersion", "changelog.validate"}

NoFailure == [pkg |-> 0, check |-> "none"]

\* At most one collaborator call fails in a run.
Failures ==
    {NoFailure, [pkg |-> 0, check |-> "getPackages"]}
    \cup [pkg : {1, 2}, check : PackageCalls]

\* The failing call, if any, is one the run can come to.
ValidateEnvs ==
    { e \in [found : { <<>>, << <<"a">> >>, << <<"a">>, <<"b">> >> },
             publish : BOOLEAN,
             failing : Failures] :
        e.failing.pkg <= Len(e.found) }

LaxGitConfig ==
    [DefaultGitConfig EXCEPT !.requireCleanWorkingDirectory = FALSE,
                             !.requireUpToDate = FALSE]

ValidateTrees ==
    { [CleanTree EXCEPT !.current = "main", !.tracking = "origin/branch",
                        !.remoteBehind = 2],
      [CleanTree EXCEPT !.current = "feature", !.tracking = "",
                        !.files = <<FileA>>] }

ValidateInit ==
    /\ gitConfig \in {DefaultGitConfig, LaxGitConfig}
    /\ workTree \in ValidateTrees
    /\ localTags = {}
    /\ remoteTags = {}
    /\ gitCall = NoGitCall
    /\ gitOps = <<>>
    /\ gitResult = NoResult
    /\ LogIdle
    /\ CmdIdle

ValidateCommand ==
    /\ valCall = NoValCall
    /\ gitCall = NoGitCall
    /\ \E options \in ValidateOptions, env \in ValidateEnvs :
        LET r == ValidateRun(gitConfig, workTree, options, env)
        IN  /\ valCall' = [op |-> "validate", options |-> options, env |-> env,
                           localBefore |-> localTags, remoteBefore |-> remoteTags,
                           treeBefore |-> workTree]
            /\ valCalls' = r.calls
            /\ valReports' = r.reports
            /\ valEnd' = [exit |-> r.exit, error |-> r.error]
            /\ gitOps' = r.ops
            /\ workTree' = TreeAfter(workTree, r.ops)
            /\ UNCHANGED <<gitConfig, localTags, remoteTags, gitCall, gitResult,
                           logVars, relVars, chgVars>>

\* The process has ended; the repository stays as the command left it.
ValidateReturn ==
    /\ valCall # NoValCall
    /\ valCall' = NoValCall
    /\ valCalls' = <<>>
    /\ valReports' = <<>>
    /\ valEnd' = NotEnded
    /\ gitOps' = <<>>
    /\ UNCHANGED <<gitConfig, localTags, remoteTags, workTree, gitCall, gitResult,
                   logVars, relVars, chgVars>>

\* validateStatus called directly, while no command runs.
ValidateStatusCall == valCall = NoValCall /\ ValidateStatus

ValidateNext == ValidateCommand \/ ValidateReturn \/ ValidateStatusCall \/ GitReturn

SpecValidate == ValidateInit /\ [][ValidateNext]_vars

-----------------------------------------------------------------------------
(* Claims about validation *)

\* The repository as it was when the validation under way began.
ValidationBefore == IF valCall # NoValCall THEN valCall ELSE gitCall

\* A validateStatus call, or a validate command without validatePack, has run.
ValidationRan ==
    \/ valCall # NoValCall /\ "validatePack" \notin valCall.options
    \/ valCall = NoValCall /\ gitCall.op = "validateStatus"

-----------------------------------------------------------------------------
(* Claims about the validate command *)

ValidateRan == valCall # NoValCall

FoundPackages == valCall.env.found

\* The report has a failed check.
HasFailedCheck(report) ==
    \E k \in 1..Len(report.validations) : ~report.validations[k].success

SomeFailedCheck == \E i \in 1..Len(valReports) : HasFailedCheck(valReports[i])

\* The run ended before its reports were complete: no package was found, or
\* a workspace query (getPackages, getPackageConfig) raised.
ValidateAborted ==
    \/ FoundPackages = <<>>
    \/ valCall.env.failing.check \in {"getPackages", "getPackageConfig"}

\* C12 as stated: validate builds a report for every targeted package, and
\* ends with exit status 1 if and only if some report has a failed check.
C12_ReportForEveryPackage ==
    ValidateRan =>
        /\ Len(valReports) = Len(FoundPackages)
        /\ valEnd.exit = 1 <=> SomeFailedCheck

\* C12 amended: unless no package is found or a workspace query raises,
\* validate builds a report for every targeted package, in order, whatever
\* checks fail in earlier packages, and ends with exit status 1 if and only if
\* some report has a failed check, with status 0 otherwise (a version or
\* changelog check that raises is such a failed check); when no package is
\* found or a workspace query raises it ends with exit status 1.
C12_ReportsUnlessAborted ==
    ValidateRan =>
        /\ ~ValidateAborted =>
              /\ Len(valReports) = Len(FoundPackages)
              /\ \A i \in 1..Len(valReports) :
                    valReports[i].packageName = FoundPackages[i]
              /\ valEnd.exit \in {0, 1}
              /\ valEnd.exit = 1 <=> SomeFailedCheck
              /\ (/\ valCall.options = {}
                   /\ valCall.env.failing.check \in
                         {"validateVersion", "changelog.validate"})
                    => HasFailedCheck(valReports[valCall.env.failing.pkg])
        /\ ValidateAborted => valEnd.exit = 1

\* Two packages validated with no flag: the first fails its version check,
\* the second is still validated in full and passes; the command exits 1.
C12_Witness ==
    /\ ValidateRan
    /\ valCall.options = {}
    /\ Len(valReports) = 2
    /\ HasFailedCheck(valReports[1])
    /\ ~HasFailedCheck(valReports[2])
    /\ Len(valReports[2].validations) = 5
    /\ valEnd.exit = 1

\* The checks the flags name, and the validation or registry call by which
\* each shows in a run.
CheckNames == {"auth", "git", "deps", "version", "changelog", "publish"}

ReportedAs == [git |-> "Git Status", deps |-> "Dependencies",
               version |-> "Version Format", changelog |-> "Changelog"]

CheckRan(check) ==
    IF check = "auth" THEN \E k \in 1..Len(valCalls) : valCalls[k] = "validateAuth"
    ELSE IF check = "publish"
    THEN \E k \in 1..Len(valCalls) : valCalls[k] = "getLatestVersion"
    ELSE \E i \in 1..Len(valReports) :
            \E k \in 1..Len(valReports[i].validations) :
                valReports[i].validations[k].name = ReportedAs[check]

AnyOnlyFlag == \E check \in CheckNames : OnlyFlag[check] \in valCall.options

\* A run in which every selected check can be seen: packages are found,
\* publishing is configured and no collaborator call fails.
PlainValidateRun ==
    /\ ValidateRan
    /\ FoundPackages # <<>>
    /\ valCall.env.publish
    /\ valCall.env.failing = NoFailure
    /\ valCall.options \cap {"skipPublishCheck", "skipDependencyCheck"} = {}

\* C19: when some only flag is set the checks run are chosen by the only
\* flags alone (a check whose only flag is set runs, its skip flag
\* notwithstanding, and the git, deps, version and changelog checks whose
\* only flag is not set do not run); when no only flag is set a check runs
\* if and only if its skip flag is not set.
C19_OnlyOverridesSkip ==
    PlainValidateRun =>
        /\ AnyOnlyFlag =>
              /\ \A check \in CheckNames :
                    OnlyFlag[check] \in valCall.options => CheckRan(check)
              /\ \A check \in {"git", "deps", "version", "changelog"} :
                    OnlyFlag[check] \notin valCall.options => ~CheckRan(check)
        /\ ~AnyOnlyFlag =>
              \A check \in CheckNames :
                  CheckRan(check) <=> SkipFlag[check] \notin valCall.options

\* C20: with skipAuth set and no only flag validateAuth is never called, and
\* with authOnly set the registry is not asked for the latest version, so no
\* version-uniqueness error is reported.
C20_AuthAndPublishSeparate ==
    ValidateRan =>
        /\ ("skipAuth" \in valCall.options /\ ~AnyOnlyFlag) => ~CheckRan("auth")
        /\ (/\ "authOnly" \in valCall.options
             /\ "publishOnly" \notin valCall.options) => ~CheckRan("publish")

\* The validations of validatePackage in the order of the code, and whether
\* the options select each.
ValidationOrder ==
    <<"Git Status", "Package Manager", "Dependencies", "Version Format", "Changelog">>

Chosen(check) ==
    IF AnyOnlyFlag THEN OnlyFlag[check] \in valCall.options
    ELSE SkipFlag[check] \notin valCall.options

ValidationChosen(name) ==
    IF name = "Git Status" THEN Chosen("git")
    ELSE IF name = "Package Manager" THEN Chosen("auth") \/ Chosen("publish")
    ELSE IF name = "Dependencies" THEN Chosen("deps")
    ELSE IF name = "Version Format" THEN Chosen("version")
    ELSE Chosen("changelog")

\* C30: within one package, validatePackage runs every selected check in the
\* order Git Status, Package Manager, Dependencies, Version Format, Changelog,
\* continuing after a check fails; the report holds exactly one result per
\* check run, and hasErrors is true if and only if one of them is a failure.
C30_ChecksInOrderAllRun ==
    ValidateRan =>
        \A i \in 1..Len(valReports) :
            /\ [k \in 1..Len(valReports[i].validations) |->
                    valReports[i].validations[k].name]
                  = SelectSeq(ValidationOrder, ValidationChosen)
            /\ valReports[i].hasErrors <=> HasFailedCheck(valReports[i])

\* A report whose first check failed and which still holds all five results.
C30_Witness ==
    /\ ValidateRan
    /\ Len(valReports) >= 1
    /\ Len(valReports[1].validations) = 5
    /\ ~valReports[1].validations[1].success
    /\ valReports[1].validations[5].success
    /\ valReports[1].hasErrors

-----------------------------------------------------------------------------
(* Batch changelog validation: inputs and runs *)

BatchNames == {<<"a">>, <<"b">>, <<"c">>}

\* The package lists: no name twice.
PackageLists ==
    { l \in UNION {[1..n -> BatchNames] : n \in 0..Cardinality(BatchNames)} :
        \A i, j \in 1..Len(l) : i # j => l[i] # l[j] }

\* The packages whose changelog is invalid, and those without a path.
ChangelogEnvs == [invalid : SUBSET BatchNames, pathless : {{}, {<<"b">>}}]

ChangelogInit ==
    /\ LogIdle
    /\ GitIdle
    /\ CmdIdle

ChangelogValidate ==
    /\ chgCall = NoChgCall
    /\ \E found \in PackageLists, env \in ChangelogEnvs :
        LET r == ChangelogValidateRun(found, env)
        IN  /\ chgCall' = [op |-> "changelog validate", found |-> found, env |-> env]
            /\ chgCalls' = r.calls
            /\ chgEnd' = [exit |-> r.exit, error |-> r.error]
            /\ UNCHANGED <<logVars, gitVars, relVars, valVars>>

ValidateChangelogs ==
    /\ chgCall = NoChgCall
    /\ \E packages \in PackageLists, env \in ChangelogEnvs :
        LET r == ValidateChangelogsRun(packages, env)
        IN  /\ chgCall' = [op |-> "validateChangelogs", found |-> packages, env |-> env]
            /\ chgCalls' = r.calls
            /\ chgEnd' = [exit |-> r.exit, error |-> r.error]
            /\ UNCHANGED <<logVars, gitVars, relVars, valVars>>

ChangelogReturn ==
    /\ chgCall # NoChgCall
    /\ chgCall' = NoChgCall
    /\ chgCalls' = <<>>
    /\ chgEnd' = NotEnded
    /\ UNCHANGED <<logVars, gitVars, relVars, valVars>>

ChangelogNext == ChangelogValidate \/ ValidateChangelogs \/ ChangelogReturn

SpecChangelog == ChangelogInit /\ [][ChangelogNext]_vars

-----------------------------------------------------------------------------
(* Claims about batch changelog validation *)

\* C13: in a batch changelog validation, by the subcommand or by
\* validateChangelogs, over packages that all have a path, every listed
\* package is validated, even when an earlier one is invalid.
C13_EveryChangelogValidated ==
    (chgCall # NoChgCall /\ chgCall.env.pathless = {}) =>
        \A i \in 1..Len(chgCall.found) :
            \E k \in 1..Len(chgCalls) :
                chgCalls[k] = PackageCall("changelog.validate", chgCall.found[i])

-----------------------------------------------------------------------------
(* push and commitChanges: inputs and calls *)

\* Which git operations of one push fail: the status read, the status read
\* again in the catch block, the push.
PushEnvs == [statusFails : BOOLEAN, statusFailsAgain : BOOLEAN, pushFails : BOOLEAN]

\* The package.json names a configuration may have been generated for: the
\* monorepo root's, or a package's own.
RootNames == { <<"monorepo">>, <<"a">> }

CommitTemplates ==
    { DefaultCommitMessage(n) : n \in RootNames }
    \cup { <<"release ", "${packageName}", "@", "${version}">>,
           <<"${packageName}", ": ", "${packageName}", "@", "${version}">> }

CommitConfigs ==
    { [GeneratedGitConfig(<<"monorepo">>) EXCEPT !.commitMessage = t, !.remote = r] :
        t \in CommitTemplates, r \in {"origin", "upstream"} }

\* A PackageContext as commitChanges reads it, with its changelog's path.
CommitContexts ==
    { [name |-> <<"a">>, path |-> AbsPath(PkgRelA), newVersion |-> v,
       changelogPath |-> AbsPath(PkgRelA) \o <<"/", "CHANGELOG.md">>] :
        v \in {<<>>, V100, V101} }
    \cup { [name |-> <<"b">>, path |-> AbsPath(PkgRelB), newVersion |-> V101,
            changelogPath |-> AbsPath(PkgRelB) \o <<"/", "CHANGELOG.md">>] }

CommitEnvs == [addFails : BOOLEAN, commitFails : BOOLEAN]

CommitInit ==
    /\ gitConfig \in CommitConfigs
    /\ workTree \in Trees
    /\ localTags \in {{}, {GetTagName(gitConfig, <<"a">>, V101)}}
    /\ remoteTags = {}
    /\ gitCall = NoGitCall
    /\ gitOps = <<>>
    /\ gitResult = NoResult
    /\ LogIdle
    /\ CmdIdle

Push ==
    /\ gitCall = NoGitCall
    /\ \E force \in BOOLEAN, env \in PushEnvs :
        LET r == PushRun(gitConfig, workTree, force, env)
        IN  /\ gitCall' = [op |-> "push", force |-> force, env |-> env,
                           localBefore |-> localTags, remoteBefore |-> remoteTags,
                           treeBefore |-> workTree]
            /\ gitOps' = r.ops
            /\ gitResult' = r.result
            /\ workTree' = IF r.result.status = "ok"
                           THEN TreeAfterPush(workTree, r.ops[Len(r.ops)])
                           ELSE workTree
            /\ remoteTags' = RemoteTagsAfterPush(localTags, remoteTags, r.ops)
            /\ UNCHANGED <<gitConfig, localTags, logVars, cmdVars>>

\* One release commit is made on the head the repository starts with.
CommitChanges ==
    /\ gitCall = NoGitCall
    /\ workTree.head = "c0"
    /\ \E context \in CommitContexts, env \in CommitEnvs :
        LET r == CommitChangesRun(gitConfig, context, context.changelogPath, env)
        IN  /\ gitCall' = [op |-> "commitChanges", context |-> context, env |-> env,
                           localBefore |-> localTags, remoteBefore |-> remoteTags,
                           treeBefore |-> workTree]
            /\ gitOps' = r.ops
            /\ gitResult' = r.result
            /\ workTree' = IF r.result.status = "ok"
                           THEN TreeAfterCommit(workTree, r.ops[1].arg)
                           ELSE workTree
            /\ UNCHANGED <<gitConfig, localTags, remoteTags, logVars, cmdVars>>

CommitNext == CommitChanges \/ Push \/ GitReturn

SpecCommit == CommitInit /\ [][CommitNext]_vars

-----------------------------------------------------------------------------
(* Claims about push *)

PushCall == gitCall.op = "push"

PushOps == {i \in 1..Len(gitOps) : gitOps[i].cmd = "push"}

\* C14: once the status is read, push issues exactly one push operation, to
\* the configured remote, of the current branch with its tags, with
\* --set-upstream if and only if the branch tracks no remote branch and
\* --force if and only if force was requested; with no current branch it
\* issues no push and fails.
C14_OnePushWithOptions ==
    (PushCall /\ ~gitCall.env.statusFails) =>
        LET wt == gitCall.treeBefore
        IN  /\ wt.current # "" =>
                  /\ Cardinality(PushOps) = 1
                  /\ \A i \in PushOps :
                        LET arg == gitOps[i].arg
                        IN  /\ arg[1] = gitConfig.remote
                            /\ arg[2] = wt.current
                            /\ InArray(arg, "--follow-tags")
                            /\ InArray(arg, "--set-upstream") <=> wt.tracking = ""
                            /\ InArray(arg, "--force") <=> gitCall.force
            /\ wt.current = "" =>
                  /\ PushOps = {}
                  /\ gitResult.status = "error"

\* A forced push of an untracked branch that succeeded, with both options.
C14_Witness ==
    /\ PushCall
    /\ gitCall.force
    /\ gitCall.treeBefore.current = "feature"
    /\ gitCall.treeBefore.tracking = ""
    /\ gitResult.status = "ok"
    /\ \E i \in PushOps : InArray(gitOps[i].arg, "--set-upstream")
                             /\ InArray(gitOps[i].arg, "--force")
    /\ workTree.tracking # ""

\* C15: whenever push fails, at whatever step, the error it raises carries
\* the recovery hint together with the original cause message, and push
\* issues no reset, tag deletion or commit: the head commit and the local
\* tags stay as they were.
C15_FailureCarriesHint ==
    (PushCall /\ gitResult.status = "error") =>
        /\ \E cause \in {GitFailure("status"), NoBranchMessage, GitFailure("push")} :
              gitResult.message =
                  PushFailedMessage(gitConfig, gitCall.treeBefore.current, cause)
        /\ \A i \in 1..Len(gitOps) : gitOps[i].cmd \in {"status", "push"}
        /\ localTags = gitCall.localBefore
        /\ workTree.head = gitCall.treeBefore.head

-----------------------------------------------------------------------------
(* getLastTag: inputs and calls *)

MaxTags == 3

LastTagVersions ==
    { <<"1", ".", "9", ".", "0">>, <<"1", ".", "10", ".", "0">>,
      <<"1", ".", "2">>, <<"1", ".", "2", ".", "0">>, <<"2", ".", "0", ".", "0">> }

LastTagPackages == { <<"a">>, <<"a", "b">>, <<"c">> }

\* The tags of the repository: package c has none.
LastTagUniverse ==
    { FormatGitTag(<<"a">>, v, <<>>) : v \in LastTagVersions }
    \cup { FormatGitTag(<<"a", "b">>, <<"2", ".", "0", ".", "0">>, <<>>),
           FormatGitTag(<<"a", "b">>, <<"1", ".", "10", ".", "0">>, <<>>) }

\* The orders in which git may list a set of tags.
Orderings(tags) ==
    { l \in [1..Cardinality(tags) -> tags] :
        \A i, j \in 1..Cardinality(tags) : i # j => l[i] # l[j] }

LastTagInit ==
    /\ gitConfig = DefaultGitConfig
    /\ localTags \in {t \in SUBSET LastTagUniverse : Cardinality(t) <= MaxTags}
    /\ remoteTags = {}
    /\ workTree = CleanTree
    /\ gitCall = NoGitCall
    /\ gitOps = <<>>
    /\ gitResult = NoResult
    /\ LogIdle
    /\ CmdIdle

CallGetLastTag ==
    /\ gitCall = NoGitCall
    /\ \E packageName \in LastTagPackages, all \in Orderings(localTags) :
        /\ gitCall' = [op |-> "getLastTag", packageName |-> packageName, all |-> all]
        /\ gitOps' = <<GitOp("tag", <<>>, TRUE)>>
        /\ gitResult' = Returned(GetLastTag(all, packageName))
        /\ UNCHANGED <<gitConfig, localTags, remoteTags, workTree, logVars, cmdVars>>

LastTagNext == CallGetLastTag \/ GitReturn

SpecLastTag == LastTagInit /\ [][LastTagNext]_vars

-----------------------------------------------------------------------------
(* Claims about getLastTag *)

\* The tags of package P: those named P@version.
TagsOfPackage(packageName) ==
    { t \in localTags :
        \E v \in LastTagVersions : t = FormatGitTag(packageName, v, gitConfig.tagPrefix) }

\* The i-th dot-separated segment of a version as an integer, 0 if missing.
SegmentValue(version, i) ==
    LET dots == <<0>> \o SelectSeq([k \in 1..Len(version) |-> k],
                                    LAMBDA k : version[k] = ".")
                      \o <<Len(version) + 1>>
    IN  IF i >= Len(dots) THEN 0
        ELSE LET digits == SubSeq(version, dots[i] + 1, dots[i + 1] - 1)
             IN  IF digits = <<"10">> THEN 10
                 ELSE IF digits = <<"9">> THEN 9
                 ELSE IF digits = <<"2">> THEN 2
                 ELSE IF digits = <<"1">> THEN 1
                 ELSE 0

\* v ranks no higher than w, comparing segment by segment.
RanksAtMost(v, w) ==
    \/ \A i \in 1..3 : SegmentValue(v, i) = SegmentValue(w, i)
    \/ \E i \in 1..3 :
          /\ SegmentValue(v, i) < SegmentValue(w, i)
          /\ \A j \in 1..(i - 1) : SegmentValue(v, j) = SegmentValue(w, j)

\* The version in a tag P@version of package P.
VersionIn(tag, packageName) == SubSeq(tag, Len(packageName) + 2, Len(tag))

\* C16: getLastTag(P) returns one of P's tags whose version is maximal under
\* segment-wise integer comparison with a missing segment read as 0 (1.10.0
\* above 1.9.0, 1.2 level with 1.2.0), returns the empty string exactly when
\* P has no tag, and never returns a tag of another package.
C16_LastTagIsMaximal ==
    gitCall.op = "getLastTag" =>
        LET P == gitCall.packageName
            mine == TagsOfPackage(P)
        IN  /\ gitResult.value = <<>> <=> mine = {}
            /\ mine # {} =>
                  /\ gitResult.value \in mine
                  /\ \A t \in mine :
                        RanksAtMost(VersionIn(t, P), VersionIn(gitResult.value, P))

\* Package a holds 1.9.0, 1.10.0 and 1.2, listed with 1.9.0 first, beside
\* nothing else: the call answers a@1.10.0.
C16_Witness ==
    /\ gitCall.op = "getLastTag"
    /\ gitCall.packageName = <<"a">>
    /\ Len(gitCall.all) = 3
    /\ gitCall.all[1] = FormatGitTag(<<"a">>, <<"1", ".", "9", ".", "0">>, <<>>)
    /\ FormatGitTag(<<"a">>, <<"1", ".", "2">>, <<>>) \in localTags
    /\ gitResult.value = FormatGitTag(<<"a">>, <<"1", ".", "10", ".", "0">>, <<>>)

-----------------------------------------------------------------------------
(* getLastTag after createTag *)

\* The release flow's next lookup: getLastTag for the package just tagged.
LastTagAfterCreate ==
    /\ gitCall # NoGitCall
    /\ gitCall.op = "createTag"
    /\ gitResult.status = "ok"
    /\ \E all \in Orderings(localTags) :
        /\ gitCall' = [op |-> "getLastTag", packageName |-> gitCall.context.name,
                       all |-> all, created |-> gitCall.context]
        /\ gitOps' = <<GitOp("tag", <<>>, TRUE)>>
        /\ gitResult' = Returned(GetLastTag(all, gitCall.context.name))
        /\ UNCHANGED <<gitConfig, localTags, remoteTags, workTree, logVars, cmdVars>>

TagLookupNext == CreateTag \/ LastTagAfterCreate \/ GitReturn

SpecTagLookup == Init /\ [][TagLookupNext]_vars

LookupAfterCreate == gitCall.op = "getLastTag" /\ "created" \in DOMAIN gitCall

\* C26: for every tagPrefix, after createTag succeeds for package P at
\* version V, getLastTag(P) returns a non-empty tag of P whose version is at
\* least V.
C26_CreatedTagIsFound ==
    LookupAfterCreate =>
        /\ gitResult.value # <<>>
        /\ \E v \in {V100, V101} :
              /\ gitResult.value =
                    FormatGitTag(gitCall.created.name, v, gitConfig.tagPrefix)
              /\ RanksAtMost(gitCall.created.newVersion, v)

-----------------------------------------------------------------------------
(* Claims about commitChanges *)

\* commitChanges was called with a new version.
CommitCall == gitCall.op = "commitChanges" /\ gitCall.context.newVersion # <<>>

CommitOps == {i \in 1..Len(gitOps) : gitOps[i].cmd = "commit"}

Placeholders == {"${packageName}", "${version}"}

\* The template with every placeholder replaced.
Substituted(template, context) ==
    Flatten([i \in 1..Len(template) |->
                IF template[i] = "${packageName}" THEN context.name
                ELSE IF template[i] = "${version}" THEN context.newVersion
                ELSE <<template[i]>>])

\* C17: commitChanges stages the manifest and the changelog and then creates
\* one commit whose message is the configured template with each occurrence
\* of ${packageName} and ${version} replaced by the package's name and new
\* version, so that no placeholder is left; no commit is created when the
\* staging fails.
C17_MessageFullySubstituted ==
    CommitCall =>
        /\ gitOps[1].cmd = "add"
        /\ gitCall.env.addFails => CommitOps = {}
        /\ ~gitCall.env.addFails =>
              /\ CommitOps = {2}
              /\ gitOps[2].arg = Substituted(gitConfig.commitMessage, gitCall.context)
              /\ \A k \in 1..Len(gitOps[2].arg) : gitOps[2].arg[k] \notin Placeholders

\* C18: with the generated default configuration, the release commit of
\* package P at version V has the message "chore(release): release P@V".
C18_DefaultMessageNamesPackage ==
    (/\ CommitCall
     /\ gitConfig.commitMessage \in {DefaultCommitMessage(n) : n \in RootNames}
     /\ gitResult.status = "ok")
        => gitOps[2].arg = <<"chore(release): release ">> \o gitCall.context.name
                              \o <<"@">> \o gitCall.context.newVersion

-----------------------------------------------------------------------------
(* Awaited calls: issue and completion of the external calls of one handler *)

\* The external calls a handler makes, by name, in program order.
CallNames(ops) == [i \in 1..Len(ops) |-> ops[i].cmd]
FnNames(calls) == [i \in 1..Len(calls) |-> calls[i].fn]

Plan(handler, calls) == [handler |-> handler, calls |-> calls]

GitServicePlans ==
    { Plan("createTag", CallNames(CreateTagRun(cfg, lt, rt, context, force, env).ops)) :
        cfg \in {DefaultGitConfig}, lt \in SUBSET TagUniverse(DefaultGitConfig),
        rt \in {{}}, context \in TagContexts, force \in BOOLEAN, env \in TagEnvs }
    \cup
    { Plan("deleteTag", CallNames(DeleteTagRun(DefaultGitConfig, lt, {}, tagName, remote, env).ops)) :
        lt \in SUBSET TagUniverse(DefaultGitConfig),
        tagName \in TagUniverse(DefaultGitConfig), remote \in BOOLEAN, env \in TagEnvs }
    \cup
    { Plan("commitChanges",
           CallNames(CommitChangesRun(cfg, context, context.changelogPath, env).ops)) :
        cfg \in {GeneratedGitConfig(<<"monorepo">>)}, context \in CommitContexts,
        env \in CommitEnvs }
    \cup
    { Plan("push", CallNames(PushRun(DefaultGitConfig, wt, force, env).ops)) :
        wt \in Trees, force \in BOOLEAN, env \in PushEnvs }
    \cup
    { Plan("validateStatus", CallNames(ValidateStatusRun(cfg, wt, options, env).ops)) :
        cfg \in StatusConfigs, wt \in Trees, options \in StatusOptions,
        env \in StatusEnvs }

CommandPlans ==
    { Plan("validate", ValidateRun(cfg, wt, options, env).calls) :
        cfg \in {DefaultGitConfig, LaxGitConfig}, wt \in ValidateTrees,
        options \in FlagSets(1), env \in ValidateEnvs }
    \cup
    { Plan("release", FnNames(ReleaseRun(packages, o, env).calls)) :
        packages \in ReleaseArguments, o \in ReleaseCommandOptions,
        env \in ReleaseEnvs }

AwaitPlans == {p \in GitServicePlans \cup CommandPlans : p.calls # <<>>}

\* The call sites written `await f(...)`: the caller is suspended until the
\* call completes.
AwaitedSites ==
    [createTag      |-> {"rev-parse", "tag -d", "push :refs/tags", "addAnnotatedTag"},
     deleteTag      |-> {"rev-parse", "tag -d", "push :refs/tags"},
     commitChanges  |-> {"add", "commit"},
     push           |-> {"status", "push"},
     validateStatus |-> {"status", "fetch"},
     validate       |-> {"getPackages", "getPackageConfig", "validateStatus",
                         "validateAuth", "getLatestVersion", "pack",
                         "checkWithDetails", "validateVersion", "changelog.validate"},
     release        |-> {"getChangedPackages", "getCurrentPackage", "analyzeChanges",
                         "createDryRunPreview", "previewChangelog", "getGitChanges",
                         "confirmRelease", "releaseAll", "releasePackages"}]

\* A handler that starts every call of a package loop without awaiting it.
Awaits_Unawaited(handler, call) ==
    handler \notin {"validate", "release"}

Awaits(handler, call) == call \in AwaitedSites[handler]

Issued(log)    == {log[i].k : i \in {j \in 1..Len(log) : log[j].ev = "issue"}}
Completed(log) == {log[i].k : i \in {j \in 1..Len(log) : log[j].ev = "done"}}
InFlight       == Issued(gitOps) \ Completed(gitOps)

AwaitInit ==
    /\ gitConfig = DefaultGitConfig
    /\ localTags = {}
    /\ remoteTags = {}
    /\ workTree = CleanTree
    /\ gitCall = NoGitCall
    /\ gitOps = <<>>
    /\ gitResult = NoResult
    /\ LogIdle
    /\ CmdIdle

\* A handler is entered: nothing is issued yet.
EnterHandler ==
    /\ gitCall = NoGitCall
    /\ \E p \in AwaitPlans :
        gitCall' = [op |-> "run", handler |-> p.handler, calls |-> p.calls, next |-> 1]
    /\ gitOps' = <<>>
    /\ UNCHANGED <<gitConfig, localTags, remoteTags, workTree, gitResult,
                   logVars, cmdVars>>

\* The handler reaches its next call: it can, unless it is suspended on an
\* awaited call that has not completed.
IssueCall ==
    /\ gitCall # NoGitCall
    /\ gitCall.next <= Len(gitCall.calls)
    /\ IF gitCall.next = 1 THEN TRUE
       ELSE Awaits(gitCall.handler, gitCall.calls[gitCall.next - 1])
                => gitCall.next - 1 \in Completed(gitOps)
    /\ gitOps' = Append(gitOps, [ev |-> "issue", k |-> gitCall.next])
    /\ gitCall' = [gitCall EXCEPT !.next = @ + 1]
    /\ UNCHANGED <<gitConfig, localTags, remoteTags, workTree, gitResult,
                   logVars, cmdVars>>

\* The external process or the registry answers a call in flight.
CompleteCall ==
    /\ gitCall # NoGitCall
    /\ \E k \in InFlight :
        gitOps' = Append(gitOps, [ev |-> "done", k |-> k])
    /\ UNCHANGED <<gitConfig, localTags, remoteTags, workTree, gitCall, gitResult,
                   logVars, cmdVars>>

\* The handler returns after its last call has completed.
LeaveHandler ==
    /\ gitCall # NoGitCall
    /\ gitCall.next > Len(gitCall.calls)
    /\ InFlight = {}
    /\ gitCall' = NoGitCall
    /\ gitOps' = <<>>
    /\ UNCHANGED <<gitConfig, localTags, remoteTags, workTree, gitResult,
                   logVars, cmdVars>>

AwaitNext == EnterHandler \/ IssueCall \/ CompleteCall \/ LeaveHandler

SpecAwait == AwaitInit /\ [][AwaitNext]_vars

\* C24: external git and registry operations are never in flight
\* concurrently: each call of a handler is issued only after the previous one
\* has completed, in program order, so the packages of a batch are processed
\* one after another.
C24_OneCallInFlight ==
    gitCall # NoGitCall =>
        /\ Cardinality(InFlight) <= 1
        /\ \A i \in 1..Len(gitOps) :
              gitOps[i].ev = "issue" =>
                  \A k \in 1..(gitOps[i].k - 1) :
                      \E j \in 1..(i - 1) : gitOps[j] = [ev |-> "done", k |-> k]

\* A validate run over two packages with the second package's first call in
\* flight after every call of the first package has completed.
C24_Witness ==
    /\ gitCall # NoGitCall
    /\ gitCall.handler = "validate"
    /\ Cardinality({k \in 1..Len(gitCall.calls) :
                        gitCall.calls[k] = "getPackageConfig"}) = 2
    /\ \E k \in InFlight :
          /\ k > 2
          /\ gitCall.calls[k] = "getPackageConfig"
          /\ Completed(gitOps) = 1..(k - 1)

====
